---- MODULE Spec2Model ----
(***************************************************************************)
(* TOEditor: the snapshot store (libraries and snapshots tables, the       *)
(* library service on top of them), the serialized form of a Library, the  *)
(* structural diff of two snapshots and the layout of the exported chart.  *)
(***************************************************************************)
EXTENDS Integers, Sequences, FiniteSets, TLC

(***************************************************************************)
(* Bounds of the model.                                                    *)
(***************************************************************************)
\* rows ever inserted into the libraries table (AUTOINCREMENT never reuses)
MaxLibs == 2
\* rows ever inserted into the snapshots table
MaxSnapshots == 3
\* largest value the wall clock reaches
MaxClock == 1
\* concurrent users of the database (connections)
NumClients == 2
\* longest array in a payload handed to diff_snapshots
MaxArrayLen == 2
\* units, at all levels together, of a library handed to export_svg
MaxUnits == 6

(***************************************************************************)
(* Option<T>: None is the empty sequence, Some(x) the one-element one.     *)
(***************************************************************************)
None == <<>>

Some(x) == <<x>>

IsSome(o) == Len(o) = 1

Unwrap(o) == o[1]

(***************************************************************************)
(* The domain model (models/library.rs).                                   *)
(***************************************************************************)
\* Library::new: no id, version 1, no tags, no units
LibraryNew(name, country, era, author) ==
    [id |-> None, name |-> name, country |-> country, era |-> era,
     author |-> author, version |-> 1, tags |-> <<>>, units |-> <<>>]

\* Library::increment_version
IncrementVersion(library) == [library EXCEPT !.version = @ + 1]

\* Unit::new: no id, no parent, nothing inside
UnitNew(name, unit_type) ==
    [id |-> None, name |-> name, unit_type |-> unit_type, parent_id |-> None,
     personnel |-> <<>>, equipment |-> <<>>, children |-> <<>>]

\* Library::add_unit
AddUnitTo(library, unit) == [library EXCEPT !.units = Append(@, unit)]

(***************************************************************************)
(* JSON text.  A payload is a sequence of tokens: punctuation, string      *)
(* literals, integer literals and null.  All tokens have one record shape. *)
(***************************************************************************)
P(c) == [k |-> "p", s |-> c, n |-> 0]

S(str) == [k |-> "s", s |-> str, n |-> 0]

N(i) == [k |-> "n", s |-> "", n |-> i]

Null == [k |-> "null", s |-> "", n |-> 0]

\* Option<i64> and Option<String> as JSON
OptNum(o) == IF IsSome(o) THEN <<N(Unwrap(o))>> ELSE <<Null>>

OptStr(o) == IF IsSome(o) THEN <<S(Unwrap(o))>> ELSE <<Null>>

RECURSIVE CommaSeparated(_)
\* elements of an array, separated by commas
CommaSeparated(seqs) ==
    IF seqs = <<>> THEN <<>>
    ELSE IF Len(seqs) = 1 THEN Head(seqs)
    ELSE Head(seqs) \o <<P(",")>> \o CommaSeparated(Tail(seqs))

ArrayText(seqs) == <<P("[")>> \o CommaSeparated(seqs) \o <<P("]")>>

\* one "key":value member
Member(key, text) == <<S(key), P(":")>> \o text

ObjectText(members) == <<P("{")>> \o CommaSeparated(members) \o <<P("}")>>

\* #[derive(Serialize)] Personnel: position, rank
SerializePersonnel(p) ==
    ObjectText(<<Member("position", <<S(p.position)>>),
                 Member("rank", OptStr(p.rank))>>)

\* #[derive(Serialize)] Equipment: name, quantity
SerializeEquipment(e) ==
    ObjectText(<<Member("name", <<S(e.name)>>),
                 Member("quantity", <<N(e.quantity)>>)>>)

RECURSIVE SerializeUnit(_)
\* #[derive(Serialize)] Unit: the fields in declaration order, children nested
SerializeUnit(u) ==
    ObjectText(<<
        Member("id", OptNum(u.id)),
        Member("name", <<S(u.name)>>),
        Member("unit_type", <<S(u.unit_type)>>),
        Member("parent_id", OptNum(u.parent_id)),
        Member("personnel",
               ArrayText([i \in 1..Len(u.personnel) |-> SerializePersonnel(u.personnel[i])])),
        Member("equipment",
               ArrayText([i \in 1..Len(u.equipment) |-> SerializeEquipment(u.equipment[i])])),
        Member("children",
               ArrayText([i \in 1..Len(u.children) |-> SerializeUnit(u.children[i])]))>>)

\* serde_json::to_string(&library): the fields in declaration order
SerializeLibrary(library) ==
    ObjectText(<<
        Member("id", OptNum(library.id)),
        Member("name", <<S(library.name)>>),
        Member("country", <<S(library.country)>>),
        Member("era", <<S(library.era)>>),
        Member("author", <<S(library.author)>>),
        Member("version", <<N(library.version)>>),
        Member("tags", ArrayText([i \in 1..Len(library.tags) |-> <<S(library.tags[i])>>])),
        Member("units", ArrayText([i \in 1..Len(library.units) |-> SerializeUnit(library.units[i])]))>>)

(***************************************************************************)
(* Parsed JSON.  Every value has one record shape; `items` holds the       *)
(* elements of an array or the [key, val] members of an object, in the     *)
(* order of the text.                                                      *)
(***************************************************************************)
JNull == [t |-> "null", n |-> 0, s |-> "", items |-> <<>>]

JNum(i) == [t |-> "num", n |-> i, s |-> "", items |-> <<>>]

JStr(str) == [t |-> "str", n |-> 0, s |-> str, items |-> <<>>]

JArr(items) == [t |-> "arr", n |-> 0, s |-> "", items |-> items]

JObj(members) == [t |-> "obj", n |-> 0, s |-> "", items |-> members]

ParseFail == [ok |-> FALSE, v |-> JNull, next |-> 0]

ParseOk(v, next) == [ok |-> TRUE, v |-> v, next |-> next]

IsPunct(tok, c) == tok.k = "p" /\ tok.s = c

RECURSIVE ParseValue(_, _)
RECURSIVE ParseElements(_, _, _)
RECURSIVE ParseMembers(_, _, _)
\* one JSON value starting at token i: the value and the index after it
ParseValue(toks, i) ==
    IF i > Len(toks) THEN ParseFail
    ELSE LET tok == toks[i] IN
         CASE tok.k = "n" -> ParseOk(JNum(tok.n), i + 1)
           [] tok.k = "s" -> ParseOk(JStr(tok.s), i + 1)
           [] tok.k = "null" -> ParseOk(JNull, i + 1)
           [] IsPunct(tok, "[") ->
                IF i + 1 <= Len(toks) /\ IsPunct(toks[i + 1], "]")
                THEN ParseOk(JArr(<<>>), i + 2)
                ELSE ParseElements(toks, i + 1, <<>>)
           [] IsPunct(tok, "{") ->
                IF i + 1 <= Len(toks) /\ IsPunct(toks[i + 1], "}")
                THEN ParseOk(JObj(<<>>), i + 2)
                ELSE ParseMembers(toks, i + 1, <<>>)
           [] OTHER -> ParseFail

\* the elements of an array from token i on, up to the closing bracket
ParseElements(toks, i, acc) ==
    LET r == ParseValue(toks, i) IN
    IF ~r.ok \/ r.next > Len(toks) THEN ParseFail
    ELSE IF IsPunct(toks[r.next], ",")
         THEN ParseElements(toks, r.next + 1, Append(acc, r.v))
    ELSE IF IsPunct(toks[r.next], "]")
         THEN ParseOk(JArr(Append(acc, r.v)), r.next + 1)
    ELSE ParseFail

\* the members of an object from token i on, up to the closing brace
ParseMembers(toks, i, acc) ==
    IF i + 1 > Len(toks) \/ toks[i].k # "s" \/ ~IsPunct(toks[i + 1], ":") THEN ParseFail
    ELSE LET r == ParseValue(toks, i + 2) IN
         IF ~r.ok \/ r.next > Len(toks) THEN ParseFail
         ELSE IF IsPunct(toks[r.next], ",")
              THEN ParseMembers(toks, r.next + 1,
                                Append(acc, [key |-> toks[i].s, val |-> r.v]))
         ELSE IF IsPunct(toks[r.next], "}")
              THEN ParseOk(JObj(Append(acc, [key |-> toks[i].s, val |-> r.v])), r.next + 1)
         ELSE ParseFail

\* serde_json::from_str::<Value>: a whole document, one value and nothing after it
ParseDocument(toks) ==
    LET r == ParseValue(toks, 1) IN
    IF r.ok /\ r.next = Len(toks) + 1 THEN r ELSE ParseFail

(***************************************************************************)
(* #[derive(Deserialize)]: a struct is read from an object (fields by      *)
(* name, unknown keys skipped, a repeated field an error) or from an array *)
(* (fields by position, exactly as many elements as fields).               *)
(***************************************************************************)
DecodeErr == [ok |-> FALSE]

DecodeOk(val) == [ok |-> TRUE, val |-> val]

\* whether v can be read as a struct with these field names
StructOk(v, names) ==
    \/ /\ v.t = "obj"
       /\ \A i, j \in 1..Len(v.items) :
             (i < j /\ v.items[i].key = v.items[j].key) =>
                \A k \in 1..Len(names) : names[k] # v.items[i].key
    \/ /\ v.t = "arr"
       /\ Len(v.items) = Len(names)

\* a field that is not in the object
Missing == [t |-> "missing", n |-> 0, s |-> "", items |-> <<>>]

\* the value of the field `name` among the members
RECURSIVE Lookup(_, _, _)
Lookup(members, name, i) ==
    IF i > Len(members) THEN Missing
    ELSE IF members[i].key = name THEN members[i].val
    ELSE Lookup(members, name, i + 1)

\* the values of the fields of the struct read from v (StructOk), in the
\* order of `names`
StructFields(v, names) ==
    IF v.t = "arr" THEN v.items
    ELSE [j \in 1..Len(names) |-> Lookup(v.items, names[j], 1)]

\* an Option field: absent or null is None
OptOk(x, type) == x.t \in {"missing", "null", type}

OptVal(x) == IF x.t = "num" THEN Some(x.n) ELSE IF x.t = "str" THEN Some(x.s) ELSE None

PersonnelFields == <<"position", "rank">>

\* #[derive(Deserialize)] Personnel
DecodePersonnel(v) ==
    IF ~StructOk(v, PersonnelFields) THEN DecodeErr
    ELSE LET f == StructFields(v, PersonnelFields) IN
         IF f[1].t = "str" /\ OptOk(f[2], "str")
         THEN DecodeOk([position |-> f[1].s, rank |-> OptVal(f[2])])
         ELSE DecodeErr

EquipmentFields == <<"name", "quantity">>

\* #[derive(Deserialize)] Equipment; quantity is a usize: a negative number is an error
DecodeEquipment(v) ==
    IF ~StructOk(v, EquipmentFields) THEN DecodeErr
    ELSE LET f == StructFields(v, EquipmentFields) IN
         IF f[1].t = "str" /\ f[2].t = "num" /\ f[2].n >= 0
         THEN DecodeOk([name |-> f[1].s, quantity |-> f[2].n])
         ELSE DecodeErr

\* a Vec<T> read from the elements of an array with the decoder results ds
AllOk(ds) == \A i \in 1..Len(ds) : ds[i].ok

Vals(ds) == [i \in 1..Len(ds) |-> ds[i].val]

UnitFields ==
    <<"id", "name", "unit_type", "parent_id", "personnel", "equipment", "children">>

RECURSIVE DecodeUnit(_)
\* #[derive(Deserialize)] Unit
DecodeUnit(v) ==
    IF ~StructOk(v, UnitFields) THEN DecodeErr
    ELSE LET f == StructFields(v, UnitFields) IN
         IF ~(/\ OptOk(f[1], "num") /\ f[2].t = "str" /\ f[3].t = "str"
              /\ OptOk(f[4], "num")
              /\ f[5].t = "arr" /\ f[6].t = "arr" /\ f[7].t = "arr")
         THEN DecodeErr
         ELSE LET ps == [i \in 1..Len(f[5].items) |-> DecodePersonnel(f[5].items[i])]
                  es == [i \in 1..Len(f[6].items) |-> DecodeEquipment(f[6].items[i])]
                  cs == [i \in 1..Len(f[7].items) |-> DecodeUnit(f[7].items[i])]
              IN  IF AllOk(ps) /\ AllOk(es) /\ AllOk(cs)
                  THEN DecodeOk([id |-> OptVal(f[1]), name |-> f[2].s,
                                 unit_type |-> f[3].s, parent_id |-> OptVal(f[4]),
                                 personnel |-> Vals(ps), equipment |-> Vals(es),
                                 children |-> Vals(cs)])
                  ELSE DecodeErr

LibraryFields ==
    <<"id", "name", "country", "era", "author", "version", "tags", "units">>

\* #[derive(Deserialize)] Library
DecodeLibrary(v) ==
    IF ~StructOk(v, LibraryFields) THEN DecodeErr
    ELSE LET f == StructFields(v, LibraryFields) IN
         IF ~(/\ OptOk(f[1], "num") /\ f[2].t = "str" /\ f[3].t = "str"
              /\ f[4].t = "str" /\ f[5].t = "str" /\ f[6].t = "num"
              /\ f[7].t = "arr" /\ f[8].t = "arr"
              /\ \A i \in 1..Len(f[7].items) : f[7].items[i].t = "str")
         THEN DecodeErr
         ELSE LET us == [i \in 1..Len(f[8].items) |-> DecodeUnit(f[8].items[i])] IN
              IF AllOk(us)
              THEN DecodeOk([id |-> OptVal(f[1]), name |-> f[2].s, country |-> f[3].s,
                             era |-> f[4].s, author |-> f[5].s, version |-> f[6].n,
                             tags |-> [i \in 1..Len(f[7].items) |-> f[7].items[i].s],
                             units |-> Vals(us)])
              ELSE DecodeErr

\* serde_json::from_str::<Library>(data)
DeserializeLibrary(data) ==
    LET r == ParseDocument(data) IN
    IF r.ok THEN DecodeLibrary(r.v) ELSE DecodeErr

(***************************************************************************)
(* The database: the tables of migrate_v1 and migrate_v3 that the library  *)
(* service writes, and the AUTOINCREMENT counters (sqlite_sequence).  The  *)
(* created_at and updated_at columns of libraries are written and never    *)
(* read; they are left out.  Rows are records, tables are sets of rows.    *)
(***************************************************************************)
VARIABLES
    libraries,          \* table libraries
    snapshots,          \* table snapshots
    branch_categories,  \* table branch_categories
    branches,           \* table branches
    seq,                \* sqlite_sequence: the last rowid given out, per table
    clock,              \* chrono::Utc::now().timestamp()
    held,               \* per client: the Library value it holds (Option)
    pc,                 \* per client: where it is inside a service call
    call,               \* per client: the call in progress
    last,               \* per client: the last completed call and its result
    old_snapshot,       \* diff_snapshots: the argument old (Option)
    new_snapshot,       \* diff_snapshots: the argument new (Option)
    changes,            \* diff_snapshots: the records of the result (Option)
    forest,             \* export_svg: library.units (Option)
    layouts,            \* export_svg: the layout of each top-level unit
    total_width,        \* export_svg: the width of the canvas
    total_height,       \* export_svg: the height of the canvas
    library_name,       \* export_svg: library.name (Option)
    elements            \* export_svg: the elements of the svg document written

vars == <<libraries, snapshots, branch_categories, branches, seq, clock, held, pc, call, last,
          old_snapshot, new_snapshot, changes, forest, layouts, total_width, total_height,
          library_name, elements>>

\* what diff_snapshots works on, and what export_svg works on: neither reads or
\* writes the database
diffVars == <<old_snapshot, new_snapshot, changes>>

exportVars == <<forest, layouts, total_width, total_height, library_name, elements>>

\* no diff_snapshots call
NoDiff == old_snapshot = None /\ new_snapshot = None /\ changes = None

\* no export_svg call
NoExport ==
    /\ forest = None /\ layouts = <<>> /\ total_width = 0 /\ total_height = 0
    /\ library_name = None /\ elements = <<>>

Clients == 1..NumClients

\* the tables as one value, for the operators below
DB == [libraries |-> libraries, snapshots |-> snapshots,
       branch_categories |-> branch_categories, branches |-> branches, seq |-> seq]

EmptyDB == [libraries |-> {}, snapshots |-> {}, branch_categories |-> {}, branches |-> {},
            seq |-> [libraries |-> 0, snapshots |-> 0, branch_categories |-> 0, branches |-> 0]]

\* serde_json::to_string(&library.tags), the tags column
SerializeTags(tags) == ArrayText([i \in 1..Len(tags) |-> <<S(tags[i])>>])

\* serde_json::from_str(&tags_json).unwrap_or_default()
DeserializeTags(text) ==
    LET r == ParseDocument(text) IN
    IF r.ok /\ r.v.t = "arr" /\ \A i \in 1..Len(r.v.items) : r.v.items[i].t = "str"
    THEN [i \in 1..Len(r.v.items) |-> r.v.items[i].s]
    ELSE <<>>

\* the row LibraryRepo::create and LibraryRepo::update write for a library
LibraryRow(id, library) ==
    [id |-> id, name |-> library.name, country |-> library.country, era |-> library.era,
     author |-> library.author, version |-> library.version,
     tags |-> SerializeTags(library.tags)]

\* LibraryRepo::create: INSERT, then library.id = last_insert_rowid()
LibraryRepoCreate(db, library) ==
    LET id == db.seq.libraries + 1 IN
    [db |-> [db EXCEPT !.libraries = @ \cup {LibraryRow(id, library)},
                       !.seq.libraries = id],
     library |-> [library EXCEPT !.id = Some(id)]]

\* LibraryRepo::update: UPDATE ... WHERE id = ?; no row with that id changes nothing.
\* Called only with library.id set (save_library's else branch).
LibraryRepoUpdate(db, library) ==
    LET id == Unwrap(library.id) IN
    [db EXCEPT !.libraries =
        {IF r.id = id THEN LibraryRow(id, library) ELSE r : r \in @}]

\* LibraryRepo::get_by_id: the row as a Library, units not loaded
LibraryRepoGetById(db, id) ==
    LET rows == {r \in db.libraries : r.id = id} IN
    IF rows = {} THEN None
    ELSE LET r == CHOOSE r \in rows : TRUE IN
         Some([id |-> Some(r.id), name |-> r.name, country |-> r.country, era |-> r.era,
               author |-> r.author, version |-> r.version,
               tags |-> DeserializeTags(r.tags), units |-> <<>>])

\* the DELETE without the cascade, as under PRAGMA foreign_keys = OFF
LibraryRepoDeleteNoCascade(db, id) ==
    [db EXCEPT !.libraries = {r \in @ : r.id # id}]

\* LibraryRepo::delete: DELETE FROM libraries WHERE id = ?, with the
\* ON DELETE CASCADE of snapshots, branch_categories and branches
\* (PRAGMA foreign_keys = ON)
LibraryRepoDelete(db, id) ==
    [db EXCEPT !.libraries = {r \in @ : r.id # id},
               !.snapshots = {s \in @ : s.library_id # id},
               !.branch_categories = {r \in @ : r.library_id # id},
               !.branches = {r \in @ : r.library_id # id}]

\* Snapshot::new
SnapshotNew(library_id, version, data, now) ==
    [id |-> None, library_id |-> library_id, version |-> version, timestamp |-> now,
     data |-> data, description |-> None]

\* Snapshot::with_description
SnapshotWithDescription(library_id, version, data, description, now) ==
    [id |-> None, library_id |-> library_id, version |-> version, timestamp |-> now,
     data |-> data, description |-> Some(description)]

\* a table snapshots declared without UNIQUE(library_id, version): the foreign
\* key alone
SnapshotInsertForeignKeyOnly(db, snapshot) ==
    \E r \in db.libraries : r.id = snapshot.library_id

\* the constraints of table snapshots: FOREIGN KEY (library_id) REFERENCES
\* libraries(id) and UNIQUE(library_id, version)
SnapshotInsertAllowed(db, snapshot) ==
    /\ \E r \in db.libraries : r.id = snapshot.library_id
    /\ ~\E s \in db.snapshots :
          s.library_id = snapshot.library_id /\ s.version = snapshot.version

\* a store that keeps only the newest snapshot of a library
SnapshotsOverwrite(rows, row) ==
    {s \in rows : s.library_id # row.library_id} \cup {row}

\* the table snapshots after the INSERT of VersionRepo::create
SnapshotsInsert(rows, row) == rows \cup {row}

\* the statement written INSERT OR REPLACE: a row of the same (library_id,
\* version) is replaced, and the call succeeds
VersionRepoCreateOrReplace(db, snapshot) ==
    IF \E r \in db.libraries : r.id = snapshot.library_id
    THEN LET id == db.seq.snapshots + 1
             row == [snapshot EXCEPT !.id = id]
             kept == {s \in db.snapshots : ~(/\ s.library_id = snapshot.library_id
                                             /\ s.version = snapshot.version)}
         IN  [ok |-> TRUE,
              db |-> [db EXCEPT !.snapshots = kept \cup {row}, !.seq.snapshots = id],
              snapshot |-> [snapshot EXCEPT !.id = Some(id)]]
    ELSE [ok |-> FALSE, db |-> db, snapshot |-> snapshot]

\* VersionRepo::create: one INSERT; on success snapshot.id = last_insert_rowid()
VersionRepoCreate(db, snapshot) ==
    IF SnapshotInsertAllowed(db, snapshot)
    THEN LET id == db.seq.snapshots + 1
             row == [snapshot EXCEPT !.id = id]
         IN  [ok |-> TRUE,
              db |-> [db EXCEPT !.snapshots = SnapshotsInsert(@, row), !.seq.snapshots = id],
              snapshot |-> [snapshot EXCEPT !.id = Some(id)]]
    ELSE [ok |-> FALSE, db |-> db, snapshot |-> snapshot]

\* a row of table snapshots as a Snapshot value
SnapshotOfRow(s) == [s EXCEPT !.id = Some(s.id)]

RECURSIVE OrderByVersionAsc(_)
\* ORDER BY version, oldest first
OrderByVersionAsc(rows) ==
    IF rows = {} THEN <<>>
    ELSE LET low == CHOOSE s \in rows : \A o \in rows : s.version <= o.version
         IN  <<[low EXCEPT !.id = Some(low.id)]>> \o OrderByVersionAsc(rows \ {low})

RECURSIVE OrderByVersionDesc(_)
\* ORDER BY version DESC: rows of equal version in any order
OrderByVersionDesc(rows) ==
    IF rows = {} THEN <<>>
    ELSE LET top == CHOOSE s \in rows : \A o \in rows : o.version <= s.version
         IN  <<SnapshotOfRow(top)>> \o OrderByVersionDesc(rows \ {top})

\* VersionRepo::list_by_library
VersionRepoListByLibrary(db, library_id) ==
    OrderByVersionDesc({s \in db.snapshots : s.library_id = library_id})

\* VersionRepo::get_latest: the same query with LIMIT 1
VersionRepoGetLatest(db, library_id) ==
    LET rows == OrderByVersionDesc({s \in db.snapshots : s.library_id = library_id}) IN
    IF rows = <<>> THEN None ELSE Some(rows[1])

\* default_branch_categories: the English names, in order
DefaultBranchCategories ==
    <<"Combat", "Artillery", "Air defense", "Army aviation", "Combat support",
      "Logistics support">>

\* default_branches: the English name and the index of the category
DefaultBranches ==
    <<<<"Infantry", 0>>, <<"Armor", 0>>, <<"Artillery", 1>>, <<"Rocket forces", 0>>,
      <<"Aviation", 3>>, <<"Navy", 0>>, <<"Air defense", 2>>, <<"Engineers", 4>>,
      <<"Signals", 4>>, <<"Logistics", 5>>, <<"Cavalry", 0>>, <<"Reconnaissance", 0>>,
      <<"Chemical defense", 4>>>>

\* the two loops of create_library: one INSERT per default category, then one per
\* default branch with the id of its category
CreateDefaults(db, lib_id) ==
    LET c0 == db.seq.branch_categories
        b0 == db.seq.branches
        cats == {[id |-> c0 + i, library_id |-> lib_id, name_en |-> DefaultBranchCategories[i]] :
                    i \in 1..Len(DefaultBranchCategories)}
        brs == {[id |-> b0 + i, library_id |-> lib_id,
                 category_id |-> Some(c0 + DefaultBranches[i][2] + 1),
                 name_en |-> DefaultBranches[i][1]] : i \in 1..Len(DefaultBranches)}
    IN  [db EXCEPT !.branch_categories = @ \cup cats,
                   !.branches = @ \cup brs,
                   !.seq.branch_categories = c0 + Len(DefaultBranchCategories),
                   !.seq.branches = b0 + Len(DefaultBranches)]

(***************************************************************************)
(* LibraryService.  A call returns [ok, db, ret]: Ok or Err, the tables    *)
(* after the call, and the returned Library (Option).  No call runs in a   *)
(* transaction: the statements before a failing one stay done.             *)
(***************************************************************************)
\* a snapshot whose data is serialized from the library without its id
SnapshotOfLibraryWithoutId(library, now) ==
    SnapshotNew(Unwrap(library.id), library.version,
                SerializeLibrary([library EXCEPT !.id = None]), now)

\* the snapshot create_library and save_library build from the library they return
SnapshotOfLibrary(library, now) ==
    SnapshotNew(Unwrap(library.id), library.version, SerializeLibrary(library), now)

\* LibraryService::create_library
CreateLibrary(db, library, now) ==
    LET r1 == LibraryRepoCreate(db, library)
        r2 == VersionRepoCreate(r1.db, SnapshotOfLibrary(r1.library, now))
    IN  IF ~r2.ok THEN [ok |-> FALSE, db |-> r1.db, ret |-> None]
        ELSE [ok |-> TRUE, db |-> CreateDefaults(r2.db, Unwrap(r1.library.id)),
              ret |-> Some(r1.library)]

\* a save that never increments the version
SaveUnversioned(library, create_snapshot) == library

\* the library save_library works on: the version incremented when a snapshot is asked for
SaveVersioned(library, create_snapshot) ==
    IF create_snapshot THEN IncrementVersion(library) ELSE library

\* LibraryService::save_library
SaveLibrary(db, library, create_snapshot, now) ==
    IF library.id = None THEN CreateLibrary(db, library, now)
    ELSE LET lib == SaveVersioned(library, create_snapshot)
             db1 == LibraryRepoUpdate(db, lib)
         IN  IF ~create_snapshot THEN [ok |-> TRUE, db |-> db1, ret |-> Some(lib)]
             ELSE LET r == VersionRepoCreate(db1, SnapshotOfLibrary(lib, now)) IN
                  IF r.ok THEN [ok |-> TRUE, db |-> r.db, ret |-> Some(lib)]
                  ELSE [ok |-> FALSE, db |-> db1, ret |-> None]

\* a restore that takes the newest snapshot of the library, whatever the version
RestoreLatest(db, library_id, version) ==
    LET rows == {s \in db.snapshots : s.library_id = library_id} IN
    IF rows = {} THEN [ok |-> TRUE, ret |-> None]
    ELSE LET snap == CHOOSE s \in rows : \A o \in rows : o.version <= s.version
             d == DeserializeLibrary(snap.data)
         IN  IF d.ok THEN [ok |-> TRUE, ret |-> Some(d.val)]
             ELSE [ok |-> FALSE, ret |-> None]

\* LibraryService::restore_from_version: [ok, ret]; Err when the data does not decode
RestoreFromVersion(db, library_id, version) ==
    LET list == VersionRepoListByLibrary(db, library_id)
        found == {i \in 1..Len(list) : list[i].version = version}
    IN  IF found = {} THEN [ok |-> TRUE, ret |-> None]
        ELSE LET snap == list[CHOOSE i \in found : \A j \in found : i <= j]
                 d == DeserializeLibrary(snap.data)
             IN  IF d.ok THEN [ok |-> TRUE, ret |-> Some(d.val)]
                 ELSE [ok |-> FALSE, ret |-> None]

(***************************************************************************)
(* Callers.  A client holds at most one Library value (the `library`       *)
(* variable of the tests, AppState::current_library of the application),   *)
(* edits it, and passes it to the service.  A caller may keep the value    *)
(* save_library returns or drop it (File > Save Library drops it), so a    *)
(* held value can be older than the row in the database.                   *)
(***************************************************************************)
\* last[c]: the last completed call of client c, other than get_library: which
\* operation, whether it returned Ok, and whether restore_from_version returned a
\* library
NoCall == [op |-> "none", ok |-> TRUE, found |-> FALSE]

Returned(op, ok, found) == [op |-> op, ok |-> ok, found |-> found]

\* a unit with one personnel entry and ten rifles
ExampleUnit ==
    [UnitNew("1st Platoon", "Platoon") EXCEPT
        !.personnel = <<[position |-> "Rifleman", rank |-> None]>>,
        !.equipment = <<[name |-> "Rifle", quantity |-> 10]>>]

\* the library a caller starts from: Library::new with one unit added
NewLibraries == {AddUnitTo(LibraryNew("Test", "US", "2003", "Author"), ExampleUnit)}

\* the payload of the repository tests: "{}"
EmptyObjectText == <<P("{"), P("}")>>

LibraryIds == 1..MaxLibs

\* versions a direct VersionRepo::create is called with
Versions == 1..MaxSnapshots

Idle(c) == pc[c] = "idle"

SetDB(db) ==
    /\ libraries' = db.libraries
    /\ snapshots' = db.snapshots
    /\ branch_categories' = db.branch_categories
    /\ branches' = db.branches
    /\ seq' = db.seq

UnchangedDB == UNCHANGED <<libraries, snapshots, branch_categories, branches, seq>>

Init ==
    /\ libraries = EmptyDB.libraries
    /\ snapshots = EmptyDB.snapshots
    /\ branch_categories = EmptyDB.branch_categories
    /\ branches = EmptyDB.branches
    /\ seq = EmptyDB.seq
    /\ clock = 0
    /\ held = [c \in Clients |-> None]
    /\ pc = [c \in Clients |-> "idle"]
    /\ call = [c \in Clients |-> None]
    /\ last = [c \in Clients |-> NoCall]
    /\ NoDiff
    /\ NoExport

\* the clock after a call that wrote a snapshot: a second has passed, as long as
\* the clock is below its bound
Advance(t, ok) == IF ok /\ t < MaxClock THEN t + 1 ELSE t

\* let mut library = Library::new(..); library.add_unit(..)
CallerNewLibrary(c, library) ==
    /\ Idle(c)
    /\ held' = [held EXCEPT ![c] = Some(library)]
    /\ UnchangedDB
    /\ UNCHANGED <<clock, pc, call, last>>
    /\ UNCHANGED <<diffVars, exportVars>>

\* service.create_library(library), the caller keeping the library returned
CallCreateLibrary(c) ==
    /\ Idle(c)
    /\ IsSome(held[c])
    /\ seq.libraries < MaxLibs
    /\ seq.snapshots < MaxSnapshots
    /\ LET r == CreateLibrary(DB, Unwrap(held[c]), clock) IN
       /\ SetDB(r.db)
       /\ clock' = Advance(clock, r.ok)
       /\ held' = IF r.ok THEN [held EXCEPT ![c] = r.ret] ELSE held
       /\ last' = [last EXCEPT ![c] = Returned("create_library", r.ok, FALSE)]
    /\ UNCHANGED <<pc, call>>
    /\ UNCHANGED <<diffVars, exportVars>>

\* service.save_library(library, create_snapshot); the caller keeps the library
\* returned (library = service.save_library(..).unwrap()) or drops it
CallSaveLibrary(c, create_snapshot, keep) ==
    /\ Idle(c)
    /\ IsSome(held[c])
    /\ Unwrap(held[c]).id = None => seq.libraries < MaxLibs
    /\ (create_snapshot \/ Unwrap(held[c]).id = None) => seq.snapshots < MaxSnapshots
    /\ LET arg == Unwrap(held[c])
           r == SaveLibrary(DB, arg, create_snapshot, clock)
       IN  /\ SetDB(r.db)
           /\ clock' = Advance(clock, r.ok /\ (create_snapshot \/ arg.id = None))
           /\ held' = IF keep /\ r.ok THEN [held EXCEPT ![c] = r.ret] ELSE held
           /\ last' = [last EXCEPT ![c] = Returned("save_library", r.ok, FALSE)]
    /\ UNCHANGED <<pc, call>>
    /\ UNCHANGED <<diffVars, exportVars>>

\* service.get_library(id), the caller keeping what it gets
CallGetLibrary(c, id) ==
    /\ Idle(c)
    /\ IsSome(LibraryRepoGetById(DB, id))
    /\ held' = [held EXCEPT ![c] = LibraryRepoGetById(DB, id)]
    /\ UnchangedDB
    /\ UNCHANGED <<clock, pc, call, last>>
    /\ UNCHANGED <<diffVars, exportVars>>

\* service.delete_library(id)
CallDeleteLibrary(c, id) ==
    /\ Idle(c)
    /\ SetDB(LibraryRepoDelete(DB, id))
    /\ last' = [last EXCEPT ![c] = Returned("delete_library", TRUE, FALSE)]
    /\ UNCHANGED <<clock, held, pc, call>>
    /\ UNCHANGED <<diffVars, exportVars>>

\* service.restore_from_version(library_id, version); the caller keeps the library
\* it gets, if it gets one
CallRestoreFromVersion(c, library_id, version) ==
    /\ Idle(c)
    /\ \E r \in {RestoreFromVersion(DB, library_id, version)} :
          /\ held' = IF r.ok /\ IsSome(r.ret) THEN [held EXCEPT ![c] = r.ret] ELSE held
          /\ last' = [last EXCEPT ![c] =
                         Returned("restore_from_version", r.ok, IsSome(r.ret))]
    /\ UnchangedDB
    /\ UNCHANGED <<clock, pc, call>>
    /\ UNCHANGED <<diffVars, exportVars>>

\* VersionRepo::create called directly, as the repository tests do:
\* Snapshot::with_description(library_id, version, "{}", "Initial version")
CallVersionRepoCreate(c, library_id, version) ==
    /\ Idle(c)
    /\ seq.snapshots < MaxSnapshots
    /\ LET snap == SnapshotWithDescription(library_id, version, EmptyObjectText,
                                           "Initial version", clock)
           r == VersionRepoCreate(DB, snap)
       IN  /\ SetDB(r.db)
           /\ clock' = Advance(clock, r.ok)
           /\ last' = [last EXCEPT ![c] = Returned("version_repo_create", r.ok, FALSE)]
    /\ UNCHANGED <<held, pc, call>>
    /\ UNCHANGED <<diffVars, exportVars>>

\* the caller of the sequential specification
Caller == 1

Next ==
    \/ \E library \in NewLibraries : CallerNewLibrary(Caller, library)
    \/ CallCreateLibrary(Caller)
    \/ \E create_snapshot \in BOOLEAN, keep \in BOOLEAN :
          CallSaveLibrary(Caller, create_snapshot, keep)
    \/ \E id \in LibraryIds, v \in Versions : CallRestoreFromVersion(Caller, id, v)
    \/ \E id \in LibraryIds, v \in Versions : CallVersionRepoCreate(Caller, id, v)

\* the snapshot store used by one caller, each call run to its end: libraries
\* are created, saved and restored, snapshots are committed
Spec == Init /\ [][Next]_vars

NextDelete ==
    \/ \E library \in NewLibraries : CallerNewLibrary(Caller, library)
    \/ CallCreateLibrary(Caller)
    \/ \E create_snapshot \in BOOLEAN, keep \in BOOLEAN :
          CallSaveLibrary(Caller, create_snapshot, keep)
    \/ \E id \in LibraryIds, v \in Versions : CallVersionRepoCreate(Caller, id, v)
    \/ \E id \in LibraryIds : CallGetLibrary(Caller, id)
    \/ \E id \in LibraryIds : CallDeleteLibrary(Caller, id)

\* one caller that also opens libraries by id and deletes them
SpecDelete == Init /\ [][NextDelete]_vars

\* the rows of a snapshots table for one (library_id, version) pair
SnapshotsAt(rows, library_id, version) ==
    {s \in rows : s.library_id = library_id /\ s.version = version}

(***************************************************************************)
(* Several clients, each with its own connection to the same database      *)
(* file.  SQLite runs each statement atomically; save_library is two       *)
(* statements (the UPDATE of LibraryRepo::update, then the INSERT of        *)
(* VersionRepo::create) with no transaction around them, so statements of  *)
(* other clients run between the two.  call[c] is the latest commit of     *)
(* client c: the pair it is for, the library being saved, and whether it   *)
(* ran while a commit of another client for the same pair was under way.   *)
(***************************************************************************)
\* the pair a save_library(library, TRUE) call commits
CommitTarget(library) ==
    [library_id |-> Unwrap(library.id), version |-> IncrementVersion(library).version]

\* the database after one create_library call, and the library it returned
Created == CreateLibrary(EmptyDB, CHOOSE library \in NewLibraries : TRUE, 0)

\* every client holds the library create_library returned
InitConc ==
    /\ libraries = Created.db.libraries
    /\ snapshots = Created.db.snapshots
    /\ branch_categories = Created.db.branch_categories
    /\ branches = Created.db.branches
    /\ seq = Created.db.seq
    /\ clock = Advance(0, Created.ok)
    /\ held = [c \in Clients |-> Created.ret]
    /\ pc = [c \in Clients |-> "idle"]
    /\ call = [c \in Clients |-> None]
    /\ last = [c \in Clients |-> NoCall]
    /\ NoDiff
    /\ NoExport

\* whether client o is inside a save_library call that commits this pair
Committing(o, library_id, version) ==
    /\ pc[o] # "idle"
    /\ Unwrap(call[o]).library_id = library_id
    /\ Unwrap(call[o]).version = version

\* call with the commit of client c set and every commit under way for the same
\* pair marked as overlapping
Begun(c, library_id, version, library) ==
    LET others == {o \in Clients \ {c} : Committing(o, library_id, version)} IN
    [o \in Clients |->
        IF o = c THEN Some([library_id |-> library_id, version |-> version,
                            library |-> library, overlap |-> others # {}])
        ELSE IF o \in others THEN Some([Unwrap(call[o]) EXCEPT !.overlap = TRUE])
        ELSE call[o]]

\* save_library(library, true) is entered with an id: library.increment_version()
SaveBegin(c) ==
    /\ Idle(c)
    /\ IsSome(held[c])
    /\ IsSome(Unwrap(held[c]).id)
    /\ seq.snapshots < MaxSnapshots
    /\ LET lib == SaveVersioned(Unwrap(held[c]), TRUE) IN
       call' = Begun(c, Unwrap(lib.id), lib.version, Some(lib))
    /\ pc' = [pc EXCEPT ![c] = "update"]
    /\ UnchangedDB
    /\ UNCHANGED <<clock, held, last>>
    /\ UNCHANGED <<diffVars, exportVars>>

\* self.library_repo.update(&library)?
SaveUpdate(c) ==
    /\ pc[c] = "update"
    /\ SetDB(LibraryRepoUpdate(DB, Unwrap(Unwrap(call[c]).library)))
    /\ pc' = [pc EXCEPT ![c] = "snapshot"]
    /\ UNCHANGED <<clock, held, call, last>>
    /\ UNCHANGED <<diffVars, exportVars>>

\* self.version_repo.create(&mut snapshot)?; Ok(library), which the caller keeps
SaveSnapshot(c) ==
    /\ pc[c] = "snapshot"
    /\ LET lib == Unwrap(Unwrap(call[c]).library)
           r == VersionRepoCreate(DB, SnapshotOfLibrary(lib, clock))
       IN  /\ SetDB(r.db)
           /\ clock' = Advance(clock, r.ok)
           /\ held' = IF r.ok THEN [held EXCEPT ![c] = Some(lib)] ELSE held
           /\ last' = [last EXCEPT ![c] = Returned("save_library", r.ok, FALSE)]
    /\ pc' = [pc EXCEPT ![c] = "idle"]
    /\ UNCHANGED call
    /\ UNCHANGED <<diffVars, exportVars>>

\* VersionRepo::create called directly, for a pair that the next
\* save_library(.., true) of some client commits: one statement
RepoCreate(c, library_id, version) ==
    /\ Idle(c)
    /\ seq.snapshots < MaxSnapshots
    /\ \E o \in Clients : /\ IsSome(held[o])
                          /\ CommitTarget(Unwrap(held[o])).library_id = library_id
                          /\ CommitTarget(Unwrap(held[o])).version = version
    /\ LET snap == SnapshotWithDescription(library_id, version, EmptyObjectText,
                                           "Initial version", clock)
           r == VersionRepoCreate(DB, snap)
       IN  /\ SetDB(r.db)
           /\ clock' = Advance(clock, r.ok)
           /\ last' = [last EXCEPT ![c] = Returned("version_repo_create", r.ok, FALSE)]
    /\ call' = Begun(c, library_id, version, None)
    /\ UNCHANGED <<held, pc>>
    /\ UNCHANGED <<diffVars, exportVars>>

NextConc ==
    \/ \E c \in Clients : SaveBegin(c)
    \/ \E c \in Clients : SaveUpdate(c)
    \/ \E c \in Clients : SaveSnapshot(c)
    \/ \E c \in Clients, id \in LibraryIds, v \in Versions : RepoCreate(c, id, v)

\* the clients' statements interleaved
SpecConc == InitConc /\ [][NextConc]_vars

\* whether client c has a commit that has returned
Committed(c) == Idle(c) /\ IsSome(call[c])

\* C3: when two commits for the same (library_id, version) are interleaved (two
\* save_library(.., true) calls started from the same library version, or two
\* VersionRepo::create calls), at most one of them inserts a snapshot and the
\* other returns an error, and no state in between holds two snapshots for the
\* pair.
CommitsDoNotRace ==
    /\ \A s1, s2 \in snapshots :
          (s1.library_id = s2.library_id /\ s1.version = s2.version) => s1.id = s2.id
    /\ \A c1, c2 \in Clients :
          (/\ c1 # c2
           /\ Committed(c1) /\ Committed(c2)
           /\ Unwrap(call[c1]).library_id = Unwrap(call[c2]).library_id
           /\ Unwrap(call[c1]).version = Unwrap(call[c2]).version)
             => /\ ~(last[c1].ok /\ last[c2].ok)
                /\ Cardinality(SnapshotsAt(snapshots, Unwrap(call[c1]).library_id,
                                           Unwrap(call[c1]).version)) = 1

\* two save_library(.., true) calls for the same pair have overlapped and both
\* have returned, one with Ok and one with an error
RaceWitness ==
    \E c1, c2 \in Clients :
        /\ c1 # c2
        /\ Committed(c1) /\ Committed(c2)
        /\ Unwrap(call[c1]).overlap /\ Unwrap(call[c2]).overlap
        /\ IsSome(Unwrap(call[c1]).library) /\ Unwrap(call[c1]).library = Unwrap(call[c2]).library
        /\ last[c1] = Returned("save_library", TRUE, FALSE)
        /\ last[c2] = Returned("save_library", FALSE, FALSE)

(***************************************************************************)
(* Properties of the sequential specification.                             *)
(***************************************************************************)
\* C1: in every reachable state, after any sequence of create_library,
\* save_library and VersionRepo::create calls, the table holds at most one
\* snapshot for each (library_id, version) pair.
UniquePerLibraryVersion ==
    \A s1, s2 \in snapshots :
        (s1.library_id = s2.library_id /\ s1.version = s2.version) => s1 = s2

\* one library holds a snapshot from create_library (version 1), one from
\* save_library (version 2) and one from VersionRepo::create (version 3)
UniqueWitness ==
    \E s1, s2, s3 \in snapshots :
        /\ s1.library_id = s2.library_id /\ s2.library_id = s3.library_id
        /\ s1.version = 1 /\ s2.version = 2 /\ s3.version = 3
        /\ s1.description = None /\ s2.description = None
        /\ s3.description = Some("Initial version")

\* C2: a commit (VersionRepo::create, or save_library with create_snapshot =
\* TRUE) for a (library_id, version) pair that already has a snapshot returns an
\* error, and the table of snapshots is as before: the stored snapshot keeps its
\* id, data, timestamp and description.
DuplicateCommitRejected ==
    [][/\ \A id \in LibraryIds, v \in Versions :
             (CallVersionRepoCreate(Caller, id, v) /\ SnapshotsAt(snapshots, id, v) # {})
                => (~last'[Caller].ok /\ snapshots' = snapshots)
       /\ \A keep \in BOOLEAN :
             (/\ CallSaveLibrary(Caller, TRUE, keep)
              /\ IsSome(Unwrap(held[Caller]).id)
              /\ SnapshotsAt(snapshots, CommitTarget(Unwrap(held[Caller])).library_id,
                             CommitTarget(Unwrap(held[Caller])).version) # {})
                => (~last'[Caller].ok /\ snapshots' = snapshots)]_vars

\* a VersionRepo::create call has just been rejected although every library it
\* can name exists: the pair had a snapshot, and each snapshot stored was written
\* by the service, with another payload and no description, one of them at an
\* earlier time
DuplicateCommitWitness ==
    /\ last[Caller] = Returned("version_repo_create", FALSE, FALSE)
    /\ \A id \in LibraryIds : \E r \in libraries : r.id = id
    /\ \E s \in snapshots : s.timestamp # clock
    /\ \A s \in snapshots : s.data # EmptyObjectText /\ s.description = None

\* C4: once a snapshot has been created, its data and version never change:
\* after every create_library, save_library (with or without snapshot) and
\* restore_from_version call, each snapshot stored before the call is still
\* stored for the same (library_id, version), with the same data.
SnapshotsImmutable ==
    [][(\/ CallCreateLibrary(Caller)
        \/ \E create_snapshot \in BOOLEAN, keep \in BOOLEAN :
              CallSaveLibrary(Caller, create_snapshot, keep)
        \/ \E id \in LibraryIds, v \in Versions : CallRestoreFromVersion(Caller, id, v))
          => \A s \in snapshots :
                \E t \in SnapshotsAt(snapshots', s.library_id, s.version) :
                    t.id = s.id /\ t.data = s.data]_vars

\* save_library has just added a snapshot to a library that had one: the row
\* inserted last is of a later version than another snapshot of its library
ImmutableWitness ==
    /\ last[Caller] = Returned("save_library", TRUE, FALSE)
    /\ \E s1, s2 \in snapshots :
          /\ s1.library_id = s2.library_id
          /\ s1.version < s2.version
          /\ s2.id = seq.snapshots
          /\ s2.description = None

\* the snapshots a step adds
Added == {t \in snapshots' : \A s \in snapshots : s.id # t.id}

\* whether snapshot row n captures the library value: its version, and the
\* library's serialization as data
Captures(n, library) ==
    /\ n.library_id = Unwrap(library.id)
    /\ n.version = library.version
    /\ n.data = SerializeLibrary(library)

\* C5: every snapshot created by create_library or save_library has the version
\* of the library value the call returns, and as data the serialization of that
\* returned library.
SnapshotCapturesReturned ==
    [][/\ CallCreateLibrary(Caller) =>
             \E r \in {CreateLibrary(DB, Unwrap(held[Caller]), clock)} :
                /\ r.ok => (held'[Caller] = r.ret /\ Cardinality(Added) = 1)
                /\ \A n \in Added : r.ok /\ Captures(n, Unwrap(r.ret))
       /\ \A create_snapshot \in BOOLEAN, keep \in BOOLEAN :
             CallSaveLibrary(Caller, create_snapshot, keep) =>
                \E r \in {SaveLibrary(DB, Unwrap(held[Caller]), create_snapshot, clock)} :
                   /\ (r.ok /\ keep) => held'[Caller] = r.ret
                   /\ \A n \in Added : r.ok /\ Captures(n, Unwrap(r.ret))]_vars

\* the caller holds the library a successful save_library(.., TRUE) returned, at
\* version 2, and the snapshot of that version is stored
CapturesWitness ==
    /\ last[Caller] = Returned("save_library", TRUE, FALSE)
    /\ IsSome(held[Caller])
    /\ Unwrap(held[Caller]).version = 2
    /\ IsSome(Unwrap(held[Caller]).id)
    /\ \E s \in snapshots : s.id = seq.snapshots /\ Captures(s, Unwrap(held[Caller]))

\* C6: Library::new sets the version to 1 and, across any sequence of
\* create_library and save_library calls (with or without snapshot, also with a
\* copy of the library obtained earlier), the version stored for the library
\* never decreases.
StoredVersionNeverDecreases ==
    [][/\ (\E library \in NewLibraries : CallerNewLibrary(Caller, library))
             => Unwrap(held'[Caller]).version = 1
       /\ (\/ CallCreateLibrary(Caller)
           \/ \E create_snapshot \in BOOLEAN, keep \in BOOLEAN :
                 CallSaveLibrary(Caller, create_snapshot, keep))
             => \A r \in libraries : \A r2 \in libraries' :
                   r2.id = r.id => r2.version >= r.version]_vars

\* C7 as stated: save_library on an existing library with create_snapshot = TRUE
\* returns the library with its version incremented by exactly one and adds
\* exactly one snapshot for that library; with create_snapshot = FALSE it leaves
\* the version and the set of snapshots unchanged; the snapshots of other
\* libraries are unchanged in both cases.
SaveLibraryFrameAsStated ==
    [][\A create_snapshot \in BOOLEAN :
          (/\ CallSaveLibrary(Caller, create_snapshot, TRUE)
           /\ \E r \in libraries : Some(r.id) = Unwrap(held[Caller]).id)
             => /\ last'[Caller].ok
                /\ IsSome(held'[Caller])
                /\ Unwrap(held'[Caller]).id = Unwrap(held[Caller]).id
                /\ \A s \in snapshots : s \in snapshots'
                /\ IF create_snapshot
                   THEN /\ Unwrap(held'[Caller]).version = Unwrap(held[Caller]).version + 1
                        /\ Cardinality(Added) = 1
                        /\ \A n \in Added : Some(n.library_id) = Unwrap(held[Caller]).id
                   ELSE /\ Unwrap(held'[Caller]).version = Unwrap(held[Caller]).version
                        /\ snapshots' = snapshots]_vars

\* C7, amended: save_library on an existing library with create_snapshot = TRUE
\* either returns the library with its version incremented by exactly one and
\* adds exactly one snapshot, of that library, or, when the library already has a
\* snapshot of that next version, returns an error and leaves the snapshots
\* unchanged; with create_snapshot = FALSE it returns the library at the version
\* it was passed and leaves the snapshots unchanged.  The snapshots of other
\* libraries are unchanged in every case.
SaveLibraryFrame ==
    [][\A create_snapshot \in BOOLEAN :
          (/\ CallSaveLibrary(Caller, create_snapshot, TRUE)
           /\ \E r \in libraries : Some(r.id) = Unwrap(held[Caller]).id)
             => /\ \A s \in snapshots : s \in snapshots'
                /\ IF create_snapshot
                   THEN LET target == CommitTarget(Unwrap(held[Caller])) IN
                        IF SnapshotsAt(snapshots, target.library_id, target.version) = {}
                        THEN /\ last'[Caller].ok
                             /\ Unwrap(held'[Caller]).id = Unwrap(held[Caller]).id
                             /\ Unwrap(held'[Caller]).version =
                                   Unwrap(held[Caller]).version + 1
                             /\ Cardinality(Added) = 1
                             /\ \A n \in Added : Some(n.library_id) = Unwrap(held[Caller]).id
                        ELSE /\ ~last'[Caller].ok
                             /\ snapshots' = snapshots
                   ELSE /\ last'[Caller].ok
                        /\ held'[Caller] = held[Caller]
                        /\ snapshots' = snapshots]_vars

\* save_library(.., TRUE) has just succeeded on a library, the caller holding the
\* library returned, while another library holds a snapshot
SaveLibraryFrameWitness ==
    /\ last[Caller] = Returned("save_library", TRUE, FALSE)
    /\ IsSome(held[Caller])
    /\ \E s \in snapshots :
          /\ s.id = seq.snapshots
          /\ s.version > 1
          /\ Captures(s, Unwrap(held[Caller]))
          /\ \E o \in snapshots : o.library_id # s.library_id

\* the snapshots of one library
SnapshotsOf(rows, library_id) == {s \in rows : s.library_id = library_id}

\* C8: list_by_library(L) returns exactly the snapshots whose library_id is L,
\* in strictly descending order of version, and get_latest(L) returns the first
\* element of that list, or none when L has no snapshot.
ListNewestFirst ==
    \A L \in LibraryIds :
        LET list == VersionRepoListByLibrary(DB, L) IN
        /\ {list[i] : i \in 1..Len(list)} = {SnapshotOfRow(s) : s \in SnapshotsOf(snapshots, L)}
        /\ Len(list) = Cardinality(SnapshotsOf(snapshots, L))
        /\ \A i, j \in 1..Len(list) : i < j => list[i].version > list[j].version
        /\ VersionRepoGetLatest(DB, L) = IF list = <<>> THEN None ELSE Some(list[1])

\* a library holds three snapshots, the one of the highest version not the one
\* inserted last, and another library holds a snapshot too
ListWitness ==
    \E s1, s2, s3 \in snapshots :
        /\ s1.library_id = s2.library_id /\ s2.library_id = s3.library_id
        /\ s1.id < s2.id /\ s2.id < s3.id
        /\ s2.version > s3.version /\ s3.version > s1.version
        /\ Len(VersionRepoListByLibrary(DB, s1.library_id)) = 3

\* C9 as stated: restore_from_version(L, v) changes nothing in the store; it
\* returns no library exactly when no snapshot (L, v) exists, and otherwise
\* returns the library decoded from the data of exactly that snapshot.
RestoreAsStated ==
    [][\A L \in LibraryIds, v \in Versions :
          CallRestoreFromVersion(Caller, L, v) =>
             /\ <<libraries, snapshots, branch_categories, branches, seq>>' =
                   <<libraries, snapshots, branch_categories, branches, seq>>
             /\ IF SnapshotsAt(snapshots, L, v) = {}
                THEN last'[Caller] = Returned("restore_from_version", TRUE, FALSE)
                ELSE /\ last'[Caller] = Returned("restore_from_version", TRUE, TRUE)
                     /\ \A s \in SnapshotsAt(snapshots, L, v) :
                           DeserializeLibrary(s.data) = DecodeOk(Unwrap(held'[Caller]))]_vars

\* C9, amended: restore_from_version(L, v) changes nothing in the store; it
\* returns no library exactly when no snapshot (L, v) exists; otherwise it
\* returns the library decoded from the data of exactly that snapshot when the
\* data decodes to a library, and an error when it does not.
RestoreFromSnapshot ==
    [][\A L \in LibraryIds, v \in Versions :
          CallRestoreFromVersion(Caller, L, v) =>
             /\ <<libraries, snapshots, branch_categories, branches, seq>>' =
                   <<libraries, snapshots, branch_categories, branches, seq>>
             /\ IF SnapshotsAt(snapshots, L, v) = {}
                THEN /\ last'[Caller] = Returned("restore_from_version", TRUE, FALSE)
                     /\ held' = held
                ELSE \A s \in SnapshotsAt(snapshots, L, v) :
                        \E d \in {DeserializeLibrary(s.data)} :
                           IF d.ok
                           THEN /\ last'[Caller] = Returned("restore_from_version", TRUE, TRUE)
                                /\ held'[Caller] = Some(d.val)
                           ELSE /\ last'[Caller] = Returned("restore_from_version", FALSE, FALSE)
                                /\ held' = held]_vars

\* the caller has just restored the first version of a library that is at a
\* later version by now, and holds it
RestoreWitness ==
    /\ last[Caller] = Returned("restore_from_version", TRUE, TRUE)
    /\ IsSome(held[Caller])
    /\ \E s \in snapshots, r \in libraries :
          /\ Captures(s, Unwrap(held[Caller]))
          /\ s.version = 1
          /\ r.id = s.library_id
          /\ r.version > 1

\* C10: delete_library(L) removes library L together with all of its snapshots
\* and leaves every other library and its snapshots unchanged; deleting an id
\* that does not exist succeeds and changes nothing.
DeleteLibraryCascades ==
    [][\A L \in LibraryIds :
          CallDeleteLibrary(Caller, L) =>
             /\ last'[Caller] = Returned("delete_library", TRUE, FALSE)
             /\ libraries' = {r \in libraries : r.id # L}
             /\ snapshots' = {s \in snapshots : s.library_id # L}
             /\ (\A r \in libraries : r.id # L) =>
                   <<libraries, snapshots, branch_categories, branches, seq>>' =
                      <<libraries, snapshots, branch_categories, branches, seq>>]_vars

\* delete_library has just removed a library and its snapshots: fewer libraries
\* and fewer snapshots are stored than were inserted, every snapshot left is of a
\* library that is left, and such a snapshot there is
DeleteWitness ==
    /\ last[Caller] = Returned("delete_library", TRUE, FALSE)
    /\ Cardinality(libraries) < seq.libraries
    /\ Cardinality(snapshots) < seq.snapshots
    /\ snapshots # {}
    /\ \A s \in snapshots : \E r \in libraries : r.id = s.library_id

(***************************************************************************)
(* The structural diff (models/version.rs).  A record of the result is one *)
(* line of the string diff_snapshots returns; the lines are joined by      *)
(* "\n".  A path is the string the code builds.                            *)
(***************************************************************************)
\* the keys of the payloads below, in the order BTreeMap<String, Value> keeps them
KeyOrder == <<"", "name", "units">>

RECURSIVE ToValue(_)
\* serde_json::Value of a parsed text: an object is a map with one entry per key,
\* the last occurrence of a repeated key, iterated in key order
ToValue(j) ==
    IF j.t = "arr" THEN JArr([i \in 1..Len(j.items) |-> ToValue(j.items[i])])
    ELSE IF j.t = "obj" THEN
        LET Occurs(key) == {i \in 1..Len(j.items) : j.items[i].key = key}
            LastOf(key) == CHOOSE i \in Occurs(key) : \A k \in Occurs(key) : k <= i
            present == SelectSeq(KeyOrder, LAMBDA key : Occurs(key) # {})
        IN  JObj([n \in 1..Len(present) |->
                     [key |-> present[n], val |-> ToValue(j.items[LastOf(present[n])].val)]])
    ELSE j

\* serde_json::from_str::<serde_json::Value>(&snapshot.data)
FromStr(text) ==
    LET r == ParseDocument(text) IN
    IF r.ok THEN [ok |-> TRUE, v |-> ToValue(r.v)] ELSE [ok |-> FALSE, v |-> JNull]

RECURSIVE ValueText(_)
\* Display of a Value ("{}"): the compact JSON text
ValueText(v) ==
    CASE v.t = "null" -> <<Null>>
      [] v.t = "num" -> <<N(v.n)>>
      [] v.t = "str" -> <<S(v.s)>>
      [] v.t = "arr" -> ArrayText([i \in 1..Len(v.items) |-> ValueText(v.items[i])])
      [] v.t = "obj" -> ObjectText([i \in 1..Len(v.items) |->
                                      Member(v.items[i].key, ValueText(v.items[i].val))])

\* the lines of the result; every record has one shape
ChangeRecord(kind, path, what, old, new) ==
    [kind |-> kind, path |-> path, what |-> what, old |-> old, new |-> new]

\* "Version {} -> {}"
VersionLine(old_version, new_version) ==
    ChangeRecord("Version", "", "", <<N(old_version)>>, <<N(new_version)>>)

\* "No data changes."
NoDataChanges == ChangeRecord("NoDataChanges", "", "", <<>>, <<>>)

\* "Data changed but no structural differences detected."
NoStructuralDifferences == ChangeRecord("NoStructuralDifferences", "", "", <<>>, <<>>)

\* "Data format changed (could not parse as JSON)."
CouldNotParse == ChangeRecord("CouldNotParse", "", "", <<>>, <<>>)

\* "Removed: {}"
RemovedAt(path) == ChangeRecord("Removed", path, "", <<>>, <<>>)

\* "Added: {}"
AddedAt(path) == ChangeRecord("Added", path, "", <<>>, <<>>)

\* "Changed: {} (array length {} -> {})"
LengthChangedAt(path, old_len, new_len) ==
    ChangeRecord("Changed", path, "array length", <<N(old_len)>>, <<N(new_len)>>)

\* "Changed: {} ({} -> {})"
ChangedAt(path, old, new) ==
    ChangeRecord("Changed", path, "value", ValueText(old), ValueText(new))

\* let field_path = if path.is_empty() { key.clone() } else { format!("{}.{}", path, key) }
FieldPath(path, key) == IF path = "" THEN key ELSE path \o "." \o key

\* format!("{}[{}]", path, i)
ItemPath(path, i) == path \o "[" \o ToString(i) \o "]"

\* map.contains_key(key)
ContainsKey(map, key) == \E i \in 1..Len(map.items) : map.items[i].key = key

\* map.get(key), for a key the map contains
GetKey(map, key) == map.items[CHOOSE i \in 1..Len(map.items) : map.items[i].key = key].val

RECURSIVE Flatten(_)
\* the records pushed by the iterations of a loop, in the order of the iterations
Flatten(seqs) == IF seqs = <<>> THEN <<>> ELSE Head(seqs) \o Flatten(Tail(seqs))

RECURSIVE DiffJsonValues(_, _, _)
\* the first loop over an object: a key of old is compared with the same key of
\* new, or reported as removed
DiffObjectOld(path, old, new) ==
    Flatten([i \in 1..Len(old.items) |->
        LET key == old.items[i].key
            field_path == FieldPath(path, key)
        IN  IF ContainsKey(new, key)
            THEN DiffJsonValues(field_path, old.items[i].val, GetKey(new, key))
            ELSE <<RemovedAt(field_path)>>])

\* every key of new reported as added, also one that old has
DiffObjectNewEveryKey(path, old, new) ==
    [i \in 1..Len(new.items) |-> AddedAt(FieldPath(path, new.items[i].key))]

\* the second loop over an object: a key of new that old does not have is reported
\* as added
DiffObjectNew(path, old, new) ==
    Flatten([i \in 1..Len(new.items) |->
        IF ~ContainsKey(old, new.items[i].key)
        THEN <<AddedAt(FieldPath(path, new.items[i].key))>>
        ELSE <<>>])

Min(a, b) == IF a <= b THEN a ELSE b

\* the elements beyond the shorter length reported one by one, and no length record
DiffArraysEveryElement(path, old, new) ==
    LET min_len == Min(Len(old.items), Len(new.items)) IN
    Flatten([i \in 1..min_len |->
                DiffJsonValues(ItemPath(path, i - 1), old.items[i], new.items[i])])
    \o [k \in 1..Len(old.items) - min_len |-> RemovedAt(ItemPath(path, min_len + k - 1))]
    \o [k \in 1..Len(new.items) - min_len |-> AddedAt(ItemPath(path, min_len + k - 1))]

\* the elements pairwise up to the shorter length, and no length record
DiffArraysPairwiseOnly(path, old, new) ==
    LET min_len == Min(Len(old.items), Len(new.items)) IN
    Flatten([i \in 1..min_len |->
                DiffJsonValues(ItemPath(path, i - 1), old.items[i], new.items[i])])

\* two arrays: the length record if the lengths differ, then the elements pairwise
\* up to the shorter length
DiffArrays(path, old, new) ==
    LET min_len == Min(Len(old.items), Len(new.items)) IN
    (IF Len(old.items) # Len(new.items)
     THEN <<LengthChangedAt(path, Len(old.items), Len(new.items))>>
     ELSE <<>>)
    \o Flatten([i \in 1..min_len |->
                   DiffJsonValues(ItemPath(path, i - 1), old.items[i], new.items[i])])

\* the two values the wrong way round
ChangedValuesSwapped(path, old, new) == <<ChangedAt(path, new, old)>>

\* two unequal values that are not both objects and not both arrays
ChangedValues(path, old, new) == <<ChangedAt(path, old, new)>>

\* the loop over the keys of new before the loop over the keys of old
DiffJsonValuesAddedFirst(path, old, new) ==
    IF old = new THEN <<>>
    ELSE IF old.t = "obj" /\ new.t = "obj"
         THEN DiffObjectNew(path, old, new) \o DiffObjectOld(path, old, new)
    ELSE IF old.t = "arr" /\ new.t = "arr" THEN DiffArrays(path, old, new)
    ELSE ChangedValues(path, old, new)

\* diff_json_values: the records it pushes
DiffJsonValues(path, old, new) ==
    IF old = new THEN <<>>
    ELSE IF old.t = "obj" /\ new.t = "obj"
         THEN DiffObjectOld(path, old, new) \o DiffObjectNew(path, old, new)
    ELSE IF old.t = "arr" /\ new.t = "arr" THEN DiffArrays(path, old, new)
    ELSE ChangedValues(path, old, new)

\* a payload that does not parse compared as an empty object
DiffParsedPartial(old, new) ==
    LET old_val == FromStr(old.data)
        new_val == FromStr(new.data)
        records == DiffJsonValues("", old_val.v, new_val.v)
    IN  IF old_val.ok /\ new_val.ok
        THEN (IF records = <<>> THEN <<NoStructuralDifferences>> ELSE records)
        ELSE <<CouldNotParse>> \o
             DiffJsonValues("", IF old_val.ok THEN old_val.v ELSE JObj(<<>>),
                                IF new_val.ok THEN new_val.v ELSE JObj(<<>>))

\* diff_snapshots for payloads that differ: both are parsed and compared, or one
\* record says that they could not be parsed
DiffParsed(old, new) ==
    LET old_val == FromStr(old.data)
        new_val == FromStr(new.data)
    IN  IF old_val.ok /\ new_val.ok
        THEN LET records == DiffJsonValues("", old_val.v, new_val.v) IN
             IF records = <<>> THEN <<NoStructuralDifferences>> ELSE records
        ELSE <<CouldNotParse>>

\* diff_snapshots without the comparison of the two texts
DiffSnapshotsAlwaysParsed(old, new) ==
    <<VersionLine(old.version, new.version)>> \o DiffParsed(old, new)

\* diff_snapshots: the lines of the string it returns
DiffSnapshots(old, new) ==
    <<VersionLine(old.version, new.version)>>
    \o (IF old.data = new.data THEN <<NoDataChanges>> ELSE DiffParsed(old, new))

(***************************************************************************)
(* Callers of diff_snapshots.  The payloads are texts: the compact text of *)
(* a value, a text whose members are repeated or out of key order, and     *)
(* texts that are not JSON.  As in the tests of version.rs the two         *)
(* snapshots are versions 1 and 2 of library 1.                            *)
(***************************************************************************)
\* a bare word, which is not a JSON token
Word(str) == [k |-> "w", s |-> str, n |-> 0]

SeqsUpTo(set, n) == UNION {[1..k -> set] : k \in 0..n}

\* arrays of numbers, as "units":[1,2] of the tests
NumberArrays == {JArr(items) : items \in SeqsUpTo({JNum(1), JNum(2)}, MaxArrayLen)}

\* objects inside a payload
InnerObjects ==
    {JObj(<<>>), JObj(<<[key |-> "name", val |-> JStr("A")]>>),
     JObj(<<[key |-> "name", val |-> JStr("B")]>>)}

\* the values a payload gives to a key
FieldValues(key) ==
    CASE key = "" -> InnerObjects
      [] key = "name" -> {JStr("A"), JStr("B")}
      [] key = "units" -> NumberArrays \cup {JObj(<<>>)}

\* objects with any of the keys, each with one of its values
Objects ==
    LET keys == {KeyOrder[i] : i \in 1..Len(KeyOrder)}
        options == {None} \cup {Some(v) : v \in UNION {FieldValues(key) : key \in keys}}
        choices == {f \in [keys -> options] :
                       \A key \in keys : f[key] = None \/ Unwrap(f[key]) \in FieldValues(key)}
    IN  {JObj([n \in 1..Len(SelectSeq(KeyOrder, LAMBDA key : f[key] # None)) |->
                 LET key == SelectSeq(KeyOrder, LAMBDA k : f[k] # None)[n] IN
                 [key |-> key, val |-> Unwrap(f[key])]]) : f \in choices}

\* payloads that are not objects
OtherValues == {JArr(<<JNum(1)>>), JArr(<<JNum(2), JNum(1)>>), JStr("A")}

\* texts whose value is not what ValueText gives back: a repeated key, members out
\* of key order
OtherTexts ==
    {ObjectText(<<Member("name", <<S("A")>>), Member("name", <<S("B")>>)>>),
     ObjectText(<<Member("units", ArrayText(<<<<N(1)>>>>)), Member("name", <<S("A")>>)>>)}

\* texts that are not JSON: "not json", "also not json", an unclosed object
NotJsonTexts ==
    {<<Word("not"), Word("json")>>, <<Word("also"), Word("not"), Word("json")>>,
     <<P("{"), S("name"), P(":")>>}

Payloads ==
    {ValueText(v) : v \in Objects \cup OtherValues} \cup OtherTexts \cup NotJsonTexts

InitDiff ==
    /\ libraries = EmptyDB.libraries
    /\ snapshots = EmptyDB.snapshots
    /\ branch_categories = EmptyDB.branch_categories
    /\ branches = EmptyDB.branches
    /\ seq = EmptyDB.seq
    /\ clock = 0
    /\ held = [c \in Clients |-> None]
    /\ pc = [c \in Clients |-> "idle"]
    /\ call = [c \in Clients |-> None]
    /\ last = [c \in Clients |-> NoCall]
    /\ \E data \in Payloads : old_snapshot = Some(SnapshotNew(1, 1, data, clock))
    /\ \E data \in Payloads : new_snapshot = Some(SnapshotNew(1, 2, data, clock))
    /\ changes = None
    /\ NoExport

\* let diff = diff_snapshots(&s1, &s2)
CallDiffSnapshots ==
    /\ changes = None
    /\ changes' = Some(DiffSnapshots(Unwrap(old_snapshot), Unwrap(new_snapshot)))
    /\ UnchangedDB
    /\ UNCHANGED <<clock, held, pc, call, last, old_snapshot, new_snapshot, exportVars>>

\* diff_snapshots(&s1, &s1): a snapshot compared with itself
CallDiffSnapshotsSame ==
    /\ changes = None
    /\ new_snapshot' = old_snapshot
    /\ changes' = Some(DiffSnapshots(Unwrap(old_snapshot), Unwrap(old_snapshot)))
    /\ UnchangedDB
    /\ UNCHANGED <<clock, held, pc, call, last, old_snapshot, exportVars>>

NextDiff ==
    \/ CallDiffSnapshots
    \/ CallDiffSnapshotsSame

SpecDiff == InitDiff /\ [][NextDiff]_vars

(***************************************************************************)
(* The claims about diff_snapshots, under SpecDiff.                        *)
(***************************************************************************)
\* the two snapshots of the call and their parsed payloads
OldSnapshot == Unwrap(old_snapshot)

NewSnapshot == Unwrap(new_snapshot)

OldValue == FromStr(OldSnapshot.data)

NewValue == FromStr(NewSnapshot.data)

Range(s) == {s[i] : i \in DOMAIN s}

\* the records of the result that report an added or removed key or a changed value
Reported == SelectSeq(Unwrap(changes), LAMBDA r : r.kind \in {"Added", "Removed", "Changed"})

\* C11: for two snapshots whose data are the same text, the same snapshot twice
\* included, diff_snapshots yields the version line followed by the one "no
\* changes" record and nothing else, whether or not the text parses.
IdenticalDataNoChanges ==
    (IsSome(changes) /\ OldSnapshot.data = NewSnapshot.data)
        => Unwrap(changes) =
              <<VersionLine(OldSnapshot.version, NewSnapshot.version), NoDataChanges>>

\* two snapshots of different versions with the same text, which is not JSON
IdenticalWitness ==
    /\ IsSome(changes)
    /\ OldSnapshot.data = NewSnapshot.data
    /\ OldSnapshot.version # NewSnapshot.version
    /\ ~OldValue.ok

\* C12: when the two texts differ and at least one of them does not parse,
\* diff_snapshots yields the version line followed by exactly one "could not
\* parse" record, and no Added, Removed or Changed record.
UnparsedDataOneRecord ==
    (/\ IsSome(changes)
     /\ OldSnapshot.data # NewSnapshot.data
     /\ ~OldValue.ok \/ ~NewValue.ok)
        => /\ Unwrap(changes) =
                 <<VersionLine(OldSnapshot.version, NewSnapshot.version), CouldNotParse>>
           /\ Reported = <<>>

\* the old text is an object with a key, the new text is not JSON
UnparsedWitness ==
    /\ IsSome(changes)
    /\ OldValue.ok /\ OldValue.v.t = "obj" /\ OldValue.v.items # <<>>
    /\ ~NewValue.ok

\* how often a record occurs in a sequence of records
CountOf(records, r) == Cardinality({i \in DOMAIN records : records[i] = r})

\* the path of a key as C13 states it: the bare key at the top level, path.key below
StatedFieldPath(path, top, key) == IF top THEN key ELSE path \o "." \o key

RECURSIVE StatedKeyRecords(_, _, _, _)
\* the Added and Removed records C13 states for two values at a path: one for every
\* key of one object that the other does not have, and those of the values compared
\* below (the keys in both objects, the elements of two arrays pairwise)
StatedKeyRecords(path, top, old, new) ==
    IF old = new THEN <<>>
    ELSE IF old.t = "obj" /\ new.t = "obj" THEN
        Flatten([i \in 1..Len(old.items) |->
            LET key == old.items[i].key IN
            IF ContainsKey(new, key)
            THEN StatedKeyRecords(StatedFieldPath(path, top, key), FALSE,
                                  old.items[i].val, GetKey(new, key))
            ELSE <<RemovedAt(StatedFieldPath(path, top, key))>>])
        \o Flatten([i \in 1..Len(new.items) |->
            IF ContainsKey(old, new.items[i].key) THEN <<>>
            ELSE <<AddedAt(StatedFieldPath(path, top, new.items[i].key))>>])
    ELSE IF old.t = "arr" /\ new.t = "arr" THEN
        Flatten([i \in 1..Min(Len(old.items), Len(new.items)) |->
            StatedKeyRecords(ItemPath(path, i - 1), FALSE, old.items[i], new.items[i])])
    ELSE <<>>

\* C13: comparing two objects at a path, every key in old but not in new gives
\* exactly one Removed record at path.key, every key in new but not in old exactly
\* one Added record at path.key, every key in both is compared recursively and
\* nothing else is recorded for the object; at the top level the path is the bare
\* key.
ObjectKeysReportedAsStated ==
    (IsSome(changes) /\ OldSnapshot.data # NewSnapshot.data /\ OldValue.ok /\ NewValue.ok)
        => LET got == SelectSeq(Unwrap(changes), LAMBDA r : r.kind \in {"Added", "Removed"})
               stated == StatedKeyRecords("", TRUE, OldValue.v, NewValue.v)
           IN  \A r \in Range(got) \cup Range(stated) : CountOf(got, r) = CountOf(stated, r)

\* the same with the objects below the key "" left out: every object compared is
\* the top level or lies at a path that is not the empty string
ObjectKeysReported ==
    (/\ IsSome(changes) /\ OldSnapshot.data # NewSnapshot.data
     /\ OldValue.ok /\ NewValue.ok
     /\ ~(OldValue.v.t = "obj" /\ ContainsKey(OldValue.v, ""))
     /\ ~(NewValue.v.t = "obj" /\ ContainsKey(NewValue.v, "")))
        => LET got == SelectSeq(Unwrap(changes), LAMBDA r : r.kind \in {"Added", "Removed"})
               stated == StatedKeyRecords("", TRUE, OldValue.v, NewValue.v)
           IN  \A r \in Range(got) \cup Range(stated) : CountOf(got, r) = CountOf(stated, r)

\* the two arrays the call compares, with their path: the two payloads themselves,
\* or their "units"
ArrayPairs ==
    IF ~(OldValue.ok /\ NewValue.ok) THEN {}
    ELSE (IF OldValue.v.t = "arr" /\ NewValue.v.t = "arr"
          THEN {[path |-> "", old |-> OldValue.v.items, new |-> NewValue.v.items]}
          ELSE {})
         \cup
         (IF /\ OldValue.v.t = "obj" /\ NewValue.v.t = "obj"
             /\ ContainsKey(OldValue.v, "units") /\ ContainsKey(NewValue.v, "units")
             /\ GetKey(OldValue.v, "units").t = "arr"
             /\ GetKey(NewValue.v, "units").t = "arr"
          THEN {[path |-> "units", old |-> GetKey(OldValue.v, "units").items,
                 new |-> GetKey(NewValue.v, "units").items]}
          ELSE {})

\* C14: comparing two arrays at a path, if the lengths differ exactly one Changed
\* record at that path states the old and the new length; then the elements are
\* compared pairwise for the indices below the shorter length only, under path[i],
\* and there is no record for an element beyond the shorter length.
ArraysComparedPairwise ==
    (IsSome(changes) /\ OldSnapshot.data # NewSnapshot.data)
        => \A p \in ArrayPairs :
              LET longest == IF Len(p.old) >= Len(p.new) THEN Len(p.old) ELSE Len(p.new)
                  shortest == Min(Len(p.old), Len(p.new))
                  paths == {p.path} \cup {ItemPath(p.path, i) : i \in 0..longest}
                  got == SelectSeq(Reported, LAMBDA r : r.path \in paths)
                  differing == SelectSeq([i \in 1..shortest |-> i],
                                         LAMBDA i : p.old[i] # p.new[i])
              IN  got = (IF Len(p.old) # Len(p.new)
                         THEN <<LengthChangedAt(p.path, Len(p.old), Len(p.new))>>
                         ELSE <<>>)
                        \o [n \in 1..Len(differing) |->
                               ChangedAt(ItemPath(p.path, differing[n] - 1),
                                         p.old[differing[n]], p.new[differing[n]])]

\* "units" grows by elements at the end: the length record is the only record
ArraysWitness ==
    /\ IsSome(changes)
    /\ \E p \in ArrayPairs :
          /\ p.path = "units"
          /\ Len(p.old) >= 1
          /\ Len(p.old) < Len(p.new)
          /\ \A i \in 1..Len(p.old) : p.old[i] = p.new[i]
    /\ Reported = <<LengthChangedAt("units", Len(GetKey(OldValue.v, "units").items),
                                    Len(GetKey(NewValue.v, "units").items))>>

\* whether two values are compared as one Changed record
ComparedWhole(old, new) ==
    old # new /\ ~(old.t = "obj" /\ new.t = "obj") /\ ~(old.t = "arr" /\ new.t = "arr")

\* C15: comparing two unequal values that are not both objects and not both arrays
\* gives exactly one Changed record at their path, carrying the two values as they
\* are, and nothing below it: of two payloads that are such values at the top
\* level, and of two objects that differ in one such key only ({"name":"A"} ->
\* {"name":"B"} yields the version line followed by one Changed record at name).
\* Equal values give no record.
UnequalValuesChangedOnce ==
    (IsSome(changes) /\ OldSnapshot.data # NewSnapshot.data /\ OldValue.ok /\ NewValue.ok)
        => LET old == OldValue.v
               new == NewValue.v
               head == VersionLine(OldSnapshot.version, NewSnapshot.version)
           IN  /\ old = new => Reported = <<>>
               /\ ComparedWhole(old, new) =>
                     Unwrap(changes) = <<head, ChangedAt("", old, new)>>
               /\ (old.t = "obj" /\ new.t = "obj") =>
                     \A i \in 1..Len(old.items) :
                        LET key == old.items[i].key IN
                        (/\ Len(new.items) = Len(old.items)
                         /\ new.items[i].key = key
                         /\ ComparedWhole(old.items[i].val, new.items[i].val)
                         /\ \A k \in 1..Len(old.items) : k # i => old.items[k] = new.items[k])
                           => Unwrap(changes) =
                                 <<head, ChangedAt(key, old.items[i].val, new.items[i].val)>>

\* {"name":"A"} -> {"name":"B"}
ChangedOnceWitness ==
    /\ IsSome(changes)
    /\ OldValue.ok /\ OldValue.v = JObj(<<[key |-> "name", val |-> JStr("A")]>>)
    /\ NewValue.ok /\ NewValue.v = JObj(<<[key |-> "name", val |-> JStr("B")]>>)
    /\ Len(Unwrap(changes)) = 2
    /\ Unwrap(changes)[2].kind = "Changed" /\ Unwrap(changes)[2].path = "name"

\* C16: for two snapshots whose data parse and any path P, the diff of old and new
\* reports Added at P exactly if the diff of new and old reports Removed at P, and
\* Removed at P exactly if the diff of new and old reports Added at P.
AddedMirrorsRemoved ==
    (IsSome(changes) /\ OldValue.ok /\ NewValue.ok)
        => LET forward == Range(Unwrap(changes))
               backward == Range(DiffSnapshots(NewSnapshot, OldSnapshot))
           IN  \A path \in {r.path : r \in forward \cup backward} :
                  /\ AddedAt(path) \in forward <=> RemovedAt(path) \in backward
                  /\ RemovedAt(path) \in forward <=> AddedAt(path) \in backward

\* a diff that reports an added key, a removed key and a changed value
MirrorWitness ==
    /\ IsSome(changes)
    /\ OldValue.ok /\ NewValue.ok
    /\ \E r \in Range(Unwrap(changes)) : r.kind = "Added"
    /\ \E r \in Range(Unwrap(changes)) : r.kind = "Removed"
    /\ \E r \in Range(Unwrap(changes)) : r.kind = "Changed"

(***************************************************************************)
(* The chart layout (export/svg.rs).  The coordinates are f64 in the code. *)
(* Every width is a sum of multiples of 160 and of 30, so every value that *)
(* is halved is an even whole number and every coordinate a whole number,  *)
(* which f64 holds exactly: the model computes with integers.              *)
(***************************************************************************)
BOX_WIDTH == 160

BOX_HEIGHT == 50

H_SPACING == 30

V_SPACING == 60

PADDING == 40

\* a / 2.0, for the even values the layout halves
Half(a) == a \div 2

RECURSIVE SumOf(_)
\* iter().sum()
SumOf(numbers) == IF numbers = <<>> THEN 0 ELSE Head(numbers) + SumOf(Tail(numbers))

\* iter().max(), of a sequence that is not empty
MaxOf(numbers) == CHOOSE m \in Range(numbers) : \A n \in Range(numbers) : n <= m

RECURSIVE subtree_width(_)
\* the spacing counted once per child, and the box width not taken as the least
subtree_width_gap_per_child(unit) ==
    IF unit.children = <<>> THEN BOX_WIDTH
    ELSE SumOf([i \in 1..Len(unit.children) |-> subtree_width(unit.children[i])])
         + H_SPACING * Len(unit.children)

\* the children's widths added up without the spacing between them
subtree_width_no_gaps(unit) ==
    IF unit.children = <<>> THEN BOX_WIDTH
    ELSE LET children_total ==
                 SumOf([i \in 1..Len(unit.children) |-> subtree_width(unit.children[i])])
         IN  IF children_total >= BOX_WIDTH THEN children_total ELSE BOX_WIDTH

\* subtree_width
subtree_width(unit) ==
    IF unit.children = <<>> THEN BOX_WIDTH
    ELSE LET children_total ==
                 SumOf([i \in 1..Len(unit.children) |-> subtree_width(unit.children[i])])
                 + H_SPACING * (IF Len(unit.children) - 1 >= 0
                                THEN Len(unit.children) - 1 ELSE 0)
         IN  IF children_total >= BOX_WIDTH THEN children_total ELSE BOX_WIDTH

\* the box put at the left edge of the width it is given
box_left_uncentered(x, available_width) == x

\* x of the LayoutNode: cx - BOX_WIDTH / 2.0 with cx = x + available_width / 2.0
box_left(x, available_width) == (x + Half(available_width)) - Half(BOX_WIDTH)

RECURSIVE PersonnelBelow(_)
\* the personnel of a unit and of all the units below it
PersonnelBelow(unit) ==
    Len(unit.personnel)
    + SumOf([i \in 1..Len(unit.children) |-> PersonnelBelow(unit.children[i])])

RECURSIVE EquipmentBelow(_)
\* the equipment of a unit and of all the units below it
EquipmentBelow(unit) ==
    SumOf([i \in 1..Len(unit.equipment) |-> unit.equipment[i].quantity])
    + SumOf([i \in 1..Len(unit.children) |-> EquipmentBelow(unit.children[i])])

\* the totals of the whole subtree in the sublabel
SublabelOfSubtree(unit) ==
    "P:" \o ToString(PersonnelBelow(unit)) \o " E:" \o ToString(EquipmentBelow(unit))

\* format!("P:{} E:{}", personnel.len(), sum of the equipment quantities)
Sublabel(unit) ==
    "P:" \o ToString(Len(unit.personnel)) \o " E:"
    \o ToString(SumOf([i \in 1..Len(unit.equipment) |-> unit.equipment[i].quantity]))

RECURSIVE layout_unit(_, _, _, _)
\* the slots of the children side by side with no gap between them
layout_unit_no_gap(unit, x, y, available_width) ==
    LET cx == x + Half(available_width)
        widths == [i \in 1..Len(unit.children) |-> subtree_width(unit.children[i])]
        total_children_width ==
            SumOf(widths)
            + H_SPACING * (IF Len(unit.children) - 1 >= 0 THEN Len(unit.children) - 1 ELSE 0)
        start_x == cx - Half(total_children_width)
        child_y == y + BOX_HEIGHT + V_SPACING
        cur_x(i) == start_x + SumOf([k \in 1..i - 1 |-> widths[k]])
    IN  [x |-> box_left(x, available_width),
         y |-> y,
         label |-> unit.name,
         sublabel |-> Sublabel(unit),
         children |-> [i \in 1..Len(unit.children) |->
                          layout_unit(unit.children[i], cur_x(i), child_y, widths[i])]]

\* layout_unit: the LayoutNode of a unit, its children laid out left to right on
\* the next row, each in a width of its own subtree_width
layout_unit(unit, x, y, available_width) ==
    LET cx == x + Half(available_width)
        widths == [i \in 1..Len(unit.children) |-> subtree_width(unit.children[i])]
        total_children_width ==
            SumOf(widths)
            + H_SPACING * (IF Len(unit.children) - 1 >= 0 THEN Len(unit.children) - 1 ELSE 0)
        start_x == cx - Half(total_children_width)
        child_y == y + BOX_HEIGHT + V_SPACING
        \* cur_x when the loop reaches child i
        cur_x(i) == start_x + SumOf([k \in 1..i - 1 |-> widths[k] + H_SPACING])
    IN  [x |-> box_left(x, available_width),
         y |-> y,
         label |-> unit.name,
         sublabel |-> Sublabel(unit),
         children |-> [i \in 1..Len(unit.children) |->
                          layout_unit(unit.children[i], cur_x(i), child_y, widths[i])]]

RECURSIVE max_depth(_)
\* the depth of the first child only
max_depth_first_child(node) ==
    IF node.children = <<>> THEN 1 ELSE 1 + max_depth(node.children[1])

\* max_depth
max_depth(node) ==
    IF node.children = <<>> THEN 1
    ELSE 1 + MaxOf([i \in 1..Len(node.children) |-> max_depth(node.children[i])])

\* one H_SPACING between two top-level units
root_x_single_spacing(units, i) ==
    PADDING + SumOf([k \in 1..i - 1 |-> subtree_width(units[k]) + H_SPACING])

\* total_width started at 0 and not at PADDING
root_x_from_zero(units, i) ==
    SumOf([k \in 1..i - 1 |-> subtree_width(units[k]) + H_SPACING * 2])

\* export_svg: total_width when the loop reaches the top-level unit i
root_x(units, i) ==
    PADDING + SumOf([k \in 1..i - 1 |-> subtree_width(units[k]) + H_SPACING * 2])

\* export_svg: the layouts and the size of the canvas; a library without units
\* gets the fixed 400 x 100 canvas with the "(no units)" text and no layout
export_svg(units) ==
    IF units = <<>> THEN [layouts |-> <<>>, total_width |-> 400, total_height |-> 100]
    ELSE LET nodes == [i \in 1..Len(units) |->
                          layout_unit(units[i], root_x(units, i), PADDING + 30,
                                      subtree_width(units[i]))]
             depth == MaxOf([i \in 1..Len(nodes) |-> max_depth(nodes[i])])
         IN  [layouts |-> nodes,
              total_width |-> root_x(units, Len(units) + 1) + PADDING,
              total_height |-> PADDING * 2 + 30 + depth * (BOX_HEIGHT + V_SPACING)]

(***************************************************************************)
(* The svg document (export/svg.rs).  A string that goes through           *)
(* xml_escape is a sequence of pieces: a piece is one of the characters    *)
(* & < > " or a run of other characters.  An element of the document has   *)
(* one shape: a text, a rect or a path with its points.                    *)
(***************************************************************************)
\* str::replace of one character
Replace(pieces, c, by) ==
    Flatten([i \in 1..Len(pieces) |-> IF pieces[i] = c THEN by ELSE <<pieces[i]>>])

\* the ampersand replaced last, so that the & of the other entities is escaped again
xml_escape_ampersand_last(s) ==
    Replace(Replace(Replace(Replace(s, "<", <<"&", "lt;">>), ">", <<"&", "gt;">>),
                    "\"", <<"&", "quot;">>), "&", <<"&", "amp;">>)

\* xml_escape: & first, then < > "
xml_escape(s) ==
    Replace(Replace(Replace(Replace(s, "&", <<"&", "amp;">>), "<", <<"&", "lt;">>),
                    ">", <<"&", "gt;">>), "\"", <<"&", "quot;">>)

Element(tag, x, y, width, height, text, points) ==
    [tag |-> tag, x |-> x, y |-> y, width |-> width, height |-> height,
     text |-> text, points |-> points]

\* <text x=".." y="..">..</text>
TextElement(x, y, text) == Element("text", x, y, 0, 0, text, <<>>)

\* <rect x=".." y=".." width=".." height=".."/>
RectElement(x, y, width, height) == Element("rect", x, y, width, height, <<>>, <<>>)

\* <path d="M.. L.. .."/>
PathElement(points) == Element("path", 0, 0, 0, 0, <<>>, points)

\* one straight line from the parent to the child
connector_direct(node, child) ==
    PathElement(<<<<node.x + Half(BOX_WIDTH), node.y + BOX_HEIGHT>>,
                  <<child.x + Half(BOX_WIDTH), child.y>>>>)

\* render_node: the path from a node to one of its children,
\* M cx,cy L cx,mid_y L child_cx,mid_y L child_cx,child_top
connector(node, child) ==
    LET cx == node.x + Half(BOX_WIDTH)
        cy == node.y + BOX_HEIGHT
        child_cx == child.x + Half(BOX_WIDTH)
        child_top == child.y
        mid_y == cy + Half(V_SPACING)
    IN  PathElement(<<<<cx, cy>>, <<cx, mid_y>>, <<child_cx, mid_y>>, <<child_cx, child_top>>>>)

RECURSIVE render_node(_)
\* render_node: the paths to the children, the box, the two texts, then the children
render_node(node) ==
    [i \in 1..Len(node.children) |-> connector(node, node.children[i])]
    \o <<RectElement(node.x, node.y, BOX_WIDTH, BOX_HEIGHT),
         TextElement(node.x + Half(BOX_WIDTH), node.y + 20, xml_escape(<<node.label>>)),
         TextElement(node.x + Half(BOX_WIDTH), node.y + 38, xml_escape(<<node.sublabel>>))>>
    \o Flatten([i \in 1..Len(node.children) |-> render_node(node.children[i])])

\* the title alone on the canvas of a chart without boxes
svg_elements_without_early_return(name, units, r) ==
    <<TextElement(Half(r.total_width), 30, xml_escape(name))>>
    \o Flatten([i \in 1..Len(r.layouts) |-> render_node(r.layouts[i])])

\* export_svg: the elements of the document, r being the layouts and the size of
\* the canvas: the "(no units)" text alone for a library without units, else the
\* title and what render_node gives for every layout
svg_elements(name, units, r) ==
    IF units = <<>> THEN <<TextElement(200, 50, xml_escape(name) \o <<" (no units)">>)>>
    ELSE <<TextElement(Half(r.total_width), 30, xml_escape(name))>>
         \o Flatten([i \in 1..Len(r.layouts) |-> render_node(r.layouts[i])])

(***************************************************************************)
(* Callers of export_svg: a library whose units are any forest of at most  *)
(* MaxUnits units.                                                         *)
(***************************************************************************)
\* Unit::new with children pushed, and with personnel and equipment of its own
\* that differ with the number of children: a leaf has one rifleman and ten
\* rifles, a unit with two children nothing, any other unit a leader per child,
\* ten rifles and a radio per child
UnitWith(children) ==
    LET n == Len(children) IN
    [UnitNew("Unit", "unit") EXCEPT
        !.children = children,
        !.personnel = IF n = 0 THEN <<[position |-> "Rifleman", rank |-> None]>>
                      ELSE IF n = 2 THEN <<>>
                      ELSE [i \in 1..n |-> [position |-> "Leader", rank |-> None]],
        !.equipment = IF n = 0 THEN <<[name |-> "Rifle", quantity |-> 10]>>
                      ELSE IF n = 2 THEN <<>>
                      ELSE <<[name |-> "Rifle", quantity |-> 10],
                             [name |-> "Radio", quantity |-> n]>>]

RECURSIVE ForestsOfSize(_)
\* the forests of exactly n units: the first tree has k units, the rest n - k
ForestsOfSize(n) ==
    IF n = 0 THEN {<<>>}
    ELSE UNION {{<<UnitWith(c)>> \o rest : c \in ForestsOfSize(k - 1),
                                          rest \in ForestsOfSize(n - k)} : k \in 1..n}

Forests == UNION {ForestsOfSize(n) : n \in 0..MaxUnits}

\* library names of the export tests: "Test", "Test & <Library>"
LibraryNames == {<<"Test">>, <<"Test ", "&", " ", "<", "Library", ">">>}

InitExport ==
    /\ libraries = EmptyDB.libraries
    /\ snapshots = EmptyDB.snapshots
    /\ branch_categories = EmptyDB.branch_categories
    /\ branches = EmptyDB.branches
    /\ seq = EmptyDB.seq
    /\ clock = 0
    /\ held = [c \in Clients |-> None]
    /\ pc = [c \in Clients |-> "idle"]
    /\ call = [c \in Clients |-> None]
    /\ last = [c \in Clients |-> NoCall]
    /\ NoDiff
    /\ \E units \in Forests : forest = Some(units)
    /\ layouts = <<>>
    /\ total_width = 0
    /\ total_height = 0
    /\ \E name \in LibraryNames : library_name = Some(name)
    /\ elements = <<>>

\* export_svg(&library, path)
CallExportSvg ==
    /\ total_width = 0
    /\ LET r == export_svg(Unwrap(forest)) IN
       /\ layouts' = r.layouts
       /\ total_width' = r.total_width
       /\ total_height' = r.total_height
       /\ elements' = svg_elements(Unwrap(library_name), Unwrap(forest), r)
    /\ UnchangedDB
    /\ UNCHANGED <<clock, held, pc, call, last, diffVars, forest, library_name>>

NextExport == CallExportSvg

SpecExport == InitExport /\ [][NextExport]_vars

(***************************************************************************)
(* The claims about the layout, under SpecExport.                          *)
(***************************************************************************)
Exported == total_width # 0

RECURSIVE UnitsOf(_)
\* the units of a forest, at every level
UnitsOf(units) ==
    Range(units) \cup UNION {UnitsOf(units[i].children) : i \in 1..Len(units)}

RECURSIVE StatedWidth(_)
\* the width C17 states: 160 for a leaf, else the larger of 160 and the children's
\* widths with 30 between neighbours
StatedWidth(unit) ==
    IF unit.children = <<>> THEN 160
    ELSE LET n == Len(unit.children)
             total == SumOf([i \in 1..n |-> StatedWidth(unit.children[i])]) + 30 * (n - 1)
         IN  IF total >= 160 THEN total ELSE 160

\* C17: subtree_width of a leaf is 160; of a unit with n >= 1 children it is the
\* larger of 160 and the sum of the children's subtree_width plus 30 * (n - 1).
\* So it is at least 160 for every unit, at least the children's widths plus the
\* gaps for a unit with children, and 350 for two leaf children.
SubtreeWidthAsStated ==
    Exported =>
        \A unit \in UnitsOf(Unwrap(forest)) :
            LET n == Len(unit.children)
                w == subtree_width(unit)
                inside == SumOf([i \in 1..n |-> subtree_width(unit.children[i])])
                          + 30 * (n - 1)
            IN  /\ w = StatedWidth(unit)
                /\ w >= 160
                /\ n = 0 => w = 160
                /\ n >= 1 => w >= inside
                /\ (n = 2 /\ \A i \in 1..n : unit.children[i].children = <<>>) => w = 350

\* a unit with two leaf children below the top level, and a unit with one child
SubtreeWidthWitness ==
    /\ Exported
    /\ \E root \in Range(Unwrap(forest)) : \E unit \in Range(root.children) :
          /\ Len(unit.children) = 2
          /\ \A i \in 1..2 : unit.children[i].children = <<>>
    /\ \E unit \in UnitsOf(Unwrap(forest)) : Len(unit.children) = 1
    /\ total_width = PADDING + SumOf([i \in 1..Len(Unwrap(forest)) |->
                                        StatedWidth(Unwrap(forest)[i]) + 60]) + PADDING

RECURSIVE Centered(_, _, _, _)
\* whether the box of node is in the middle of the interval [x, x + available] and
\* the box of every child in the middle of its slot: the slots lie side by side, 30
\* apart, each as wide as the child's subtree, the row of slots in the middle of
\* the interval
Centered(unit, node, x, available) ==
    LET n == Len(unit.children)
        widths == [i \in 1..n |-> StatedWidth(unit.children[i])]
        row == SumOf(widths) + 30 * (n - 1)
        slot(i) == SumOf([k \in 1..i - 1 |-> widths[k] + 30])
    IN  /\ 2 * (node.x + 80) = x + (x + available)
        /\ Len(node.children) = n
        /\ \A i \in 1..n :
              \E left \in {node.x + 80 - Half(row) + slot(i)} :
                 Centered(unit.children[i], node.children[i], left, widths[i])

\* where the interval of the top-level unit i starts, as C19 states it: the first
\* at 40, the next one 60 after the end of the one before
RECURSIVE StatedRootStart(_, _)
StatedRootStart(units, i) ==
    IF i = 1 THEN 40
    ELSE StatedRootStart(units, i - 1) + StatedWidth(units[i - 1]) + 60

\* C18: for every node of the layout of any forest, node.x + 80 is the midpoint of
\* the interval [x, x + available_width] the node was given: the interval of the
\* root for a top-level unit, the child's slot for a child.
NodesCentered ==
    Exported =>
        /\ Len(layouts) = Len(Unwrap(forest))
        /\ \A i \in 1..Len(layouts) :
              Centered(Unwrap(forest)[i], layouts[i],
                       StatedRootStart(Unwrap(forest), i), StatedWidth(Unwrap(forest)[i]))

\* two top-level units, one of them with a grandchild
CenteredWitness ==
    /\ Exported
    /\ Len(layouts) = 2
    /\ \E i \in 1..2 : \E child \in Range(layouts[i].children) : child.children # <<>>

\* C19: the top-level units are laid out left to right on the row y = 70; the
\* interval of the first starts at x = 40, each is given its own subtree_width, and
\* the next interval starts 60 after the end of the one before.  One leaf root is
\* at x = 40, y = 70.
RootsLeftToRight ==
    Exported =>
        /\ Len(layouts) = Len(Unwrap(forest))
        /\ \A i \in 1..Len(layouts) :
              /\ layouts[i].y = 70
              /\ layouts[i].x = StatedRootStart(Unwrap(forest), i)
                                + Half(StatedWidth(Unwrap(forest)[i])) - 80
        /\ (Len(layouts) = 1 /\ Unwrap(forest)[1].children = <<>>) =>
              (layouts[1].x = 40 /\ layouts[1].y = 70)

\* three top-level units, the first two of them with children
RootsWitness ==
    /\ Exported
    /\ Len(layouts) = 3
    /\ layouts[1].children # <<>>
    /\ layouts[2].children # <<>>

RECURSIVE Levels(_)
\* the number of levels of a unit: 1 for a unit without children
Levels(unit) ==
    IF unit.children = <<>> THEN 1
    ELSE 1 + MaxOf([i \in 1..Len(unit.children) |-> Levels(unit.children[i])])

\* the largest number of levels over the top-level units
ForestLevels == MaxOf([i \in 1..Len(Unwrap(forest)) |-> Levels(Unwrap(forest)[i])])

\* C20 as stated: for a forest that is not empty the height of the canvas is
\* padding * 2 + depth * (box height + vertical spacing) = 80 + 110 * depth, depth
\* being the largest number of levels over the roots (1 for a leaf root).
CanvasHeightAsStated ==
    (Exported /\ Unwrap(forest) # <<>>) => total_height = 80 + 110 * ForestLevels

\* C20: for a forest that is not empty the height of the canvas is padding * 2 plus
\* the title offset 30 plus depth * (box height + vertical spacing) = 110 + 110 *
\* depth, depth being the largest number of levels over the roots (1 for a leaf
\* root).
CanvasHeight ==
    (Exported /\ Unwrap(forest) # <<>>) => total_height = 110 + 110 * ForestLevels

\* two roots, the second deeper than the first, whose first child is not its deepest
CanvasHeightWitness ==
    /\ Exported
    /\ Len(Unwrap(forest)) = 2
    /\ Levels(Unwrap(forest)[1]) < Levels(Unwrap(forest)[2])
    /\ Len(Unwrap(forest)[2].children) = 2
    /\ Levels(Unwrap(forest)[2].children[1]) < Levels(Unwrap(forest)[2].children[2])

RECURSIVE XmlText(_)
\* the characters a reader of the document gets from an escaped text: an entity
\* stands for its character
XmlText(s) ==
    IF s = <<>> THEN <<>>
    ELSE IF Head(s) = "&" /\ Len(s) >= 2 /\ s[2] \in {"amp;", "lt;", "gt;", "quot;"}
         THEN <<CASE s[2] = "amp;" -> "&" [] s[2] = "lt;" -> "<"
                  [] s[2] = "gt;" -> ">" [] s[2] = "quot;" -> "\"">>
              \o XmlText(Tail(Tail(s)))
    ELSE <<Head(s)>> \o XmlText(Tail(s))

ObjectRecordsInOrder ==
    (/\ IsSome(changes) /\ OldValue.ok /\ NewValue.ok
     /\ OldValue.v.t = "obj" /\ NewValue.v.t = "obj"
     /\ OldValue.v # NewValue.v)
        => LET old == OldValue.v
               new == NewValue.v
               of_old == Flatten([i \in 1..Len(old.items) |->
                             IF ContainsKey(new, old.items[i].key)
                             THEN DiffJsonValues(old.items[i].key, old.items[i].val,
                                                 GetKey(new, old.items[i].key))
                             ELSE <<RemovedAt(old.items[i].key)>>])
               only_new == SelectSeq(new.items, LAMBDA m : ~ContainsKey(old, m.key))
               of_new == [i \in 1..Len(only_new) |-> AddedAt(only_new[i].key)]
           IN  Tail(Unwrap(changes)) = of_old \o of_new

\* two objects compared where one key is removed, one key in both has records of
\* its own, and one key is added
RecordsInOrderWitness ==
    /\ IsSome(changes) /\ OldValue.ok /\ NewValue.ok
    /\ OldValue.v.t = "obj" /\ NewValue.v.t = "obj"
    /\ \E i, j, k \in 1..Len(Reported) :
        /\ i < j /\ j < k
        /\ Reported[i].kind = "Removed"
        /\ Reported[j].kind = "Changed"
        /\ Reported[k].kind = "Added"

RECURSIVE StatedSlotStart(_, _, _)
\* twice the x where the slot of child i starts, as C23 states it: the first slot
\* at the parent's centre less half of the children's total width, the next one 30
\* after the end of the one before
StatedSlotStart(unit, node, i) ==
    IF i = 1
    THEN 2 * (node.x + 80)
         - (SumOf([k \in 1..Len(unit.children) |-> subtree_width(unit.children[k])])
            + 30 * (Len(unit.children) - 1))
    ELSE StatedSlotStart(unit, node, i - 1)
         + 2 * (subtree_width(unit.children[i - 1]) + 30)

RECURSIVE ChildrenPlaced(_, _)
\* whether the children of node, and theirs, are where C23 states
ChildrenPlaced(unit, node) ==
    LET n == Len(unit.children) IN
    /\ Len(node.children) = n
    /\ \A i \in 1..n :
          /\ node.children[i].y = node.y + 110
          /\ 2 * (node.children[i].x + 80)
                = StatedSlotStart(unit, node, i) + subtree_width(unit.children[i])
          /\ ChildrenPlaced(unit.children[i], node.children[i])
    /\ (n = 2 /\ \A i \in 1..n : unit.children[i].children = <<>>)
          => /\ node.children[2].x - node.children[1].x = 190
             /\ node.children[1].x + 80 = node.x + 80 - 95
             /\ node.children[2].x + 80 = node.x + 80 + 95
             /\ (node.children[2].x + 160) - node.children[1].x = 350
             /\ 2 * (node.x + 80) = node.children[1].x + (node.children[2].x + 160)

\* C23: the children of a node at row y are on row y + 110; child i is in the
\* middle of a slot as wide as subtree_width(child i), the first slot starts at the
\* parent's centre less half of the children's total width and each next slot 30
\* after the end of the one before.  With two leaf children the parent is centred
\* over their span of 350 and the two boxes are 190 apart, one to each side of the
\* parent's centre.
ChildrenInSlots ==
    Exported =>
        /\ Len(layouts) = Len(Unwrap(forest))
        /\ \A i \in 1..Len(layouts) : ChildrenPlaced(Unwrap(forest)[i], layouts[i])

\* a unit with two leaf children, and a unit whose children have slots of
\* different widths
ChildrenInSlotsWitness ==
    /\ Exported
    /\ \E unit \in UnitsOf(Unwrap(forest)) :
          /\ Len(unit.children) = 2
          /\ \A i \in 1..2 : unit.children[i].children = <<>>
    /\ \E unit \in UnitsOf(Unwrap(forest)) :
          /\ Len(unit.children) = 2
          /\ subtree_width(unit.children[1]) # subtree_width(unit.children[2])

RECURSIVE NodesOf(_)
\* the nodes of a sequence of layouts, at every level
NodesOf(nodes) ==
    Range(nodes) \cup UNION {NodesOf(nodes[i].children) : i \in 1..Len(nodes)}

\* the points C24 states for the connector of an edge
StatedConnector(node, child) ==
    <<<<node.x + 80, node.y + 50>>,
      <<node.x + 80, node.y + 50 + 30>>,
      <<child.x + 80, node.y + 50 + 30>>,
      <<child.x + 80, child.y>>>>

\* C24: every parent-child edge has exactly one connector path, and the document
\* has no other path: three orthogonal segments from the middle of the parent's
\* bottom edge (x + 80, y + 50) down to 30 below it, across to the child's centre
\* x, and down to (child.x + 80, child.y), a point of the child's top edge.
OneConnectorPerEdge ==
    Exported =>
        LET paths == {i \in 1..Len(elements) : elements[i].tag = "path"}
            edges == UNION {{<<node, node.children[i]>> : i \in 1..Len(node.children)} :
                               node \in NodesOf(layouts)}
        IN  /\ Cardinality(paths) = Cardinality(edges)
            /\ \A edge \in edges :
                  LET points == StatedConnector(edge[1], edge[2])
                      child == edge[2]
                  IN  /\ Cardinality({i \in paths : elements[i].points = points}) = 1
                      /\ points[1][2] < points[2][2]
                      /\ points[3][2] < points[4][2]
                      /\ points[4][2] = child.y
                      /\ child.x <= points[4][1] /\ points[4][1] <= child.x + 160

\* a document with the connector of an only child, which is one straight line
\* down, and the connector of a child to the side of its parent
ConnectorWitness ==
    /\ Exported
    /\ \E node \in NodesOf(layouts) : \E i \in 1..Len(node.children) :
          node.children[i].x = node.x
    /\ \E node \in NodesOf(layouts) : \E i \in 1..Len(node.children) :
          /\ node.children[i].x > node.x
          /\ \E k \in 1..Len(elements) :
                /\ elements[k].tag = "path"
                /\ elements[k].points = StatedConnector(node, node.children[i])

RECURSIVE SublabelsOwn(_, _)
\* whether the sublabel of node, and of every node below it, is "P:<p> E:<e>" with
\* p the number of personnel entries of the node's own unit and e the sum of the
\* quantities of its own equipment entries
SublabelsOwn(unit, node) ==
    LET p == Cardinality(DOMAIN unit.personnel)
        e == SumOf([i \in 1..Len(unit.equipment) |-> unit.equipment[i].quantity])
    IN  /\ node.sublabel = "P:" \o ToString(p) \o " E:" \o ToString(e)
        /\ Len(node.children) = Len(unit.children)
        /\ \A i \in 1..Len(unit.children) :
              SublabelsOwn(unit.children[i], node.children[i])
        /\ (p = 1 /\ e = 10) => node.sublabel = "P:1 E:10"
        /\ \E k \in 1..Len(elements) :
              /\ elements[k].tag = "text"
              /\ elements[k].x = node.x + 80 /\ elements[k].y = node.y + 38
              /\ elements[k].text = <<node.sublabel>>

\* C25: the sublabel of every box is "P:<p> E:<e>", p the number of personnel
\* entries of that unit and e the sum of the quantities of its equipment entries,
\* of that unit alone and not of the units below it; one rifleman and ten rifles
\* give "P:1 E:10".
SublabelCountsOwnUnit ==
    Exported =>
        /\ Len(layouts) = Len(Unwrap(forest))
        /\ \A i \in 1..Len(layouts) : SublabelsOwn(Unwrap(forest)[i], layouts[i])

\* a unit without personnel and equipment above a unit that has some, a unit with
\* several equipment entries, and a leaf with the sublabel "P:1 E:10"
SublabelWitness ==
    /\ Exported
    /\ \E node \in NodesOf(layouts) :
          /\ node.sublabel = "P:0 E:0"
          /\ \E i \in 1..Len(node.children) : node.children[i].sublabel = "P:1 E:10"
    /\ \E node \in NodesOf(layouts) : node.sublabel = "P:3 E:13"

(***************************************************************************)
(* The claims about failed and repeated saves, under Spec.                 *)
(***************************************************************************)
\* C26: if save_library(lib, true) on an existing library returns an error because
\* the snapshot of the incremented version exists already, the row of the library
\* in the store is the same as before the call: a failed versioned save changes
\* nothing.
FailedSaveChangesNothing ==
    [][\A keep \in BOOLEAN :
          (/\ CallSaveLibrary(Caller, TRUE, keep)
           /\ IsSome(Unwrap(held[Caller]).id)
           /\ ~last'[Caller].ok)
             => libraries' = libraries]_vars

\* C27: with a library open in the application (the held library has an id, and
\* the store holds what the service wrote), every File > Save Library, which is
\* save_library(lib, true) with the returned library dropped, succeeds and appends
\* one snapshot of the library with a version none of its snapshots had.
EveryFileSaveAppendsSnapshot ==
    [][(/\ CallSaveLibrary(Caller, TRUE, FALSE)
        /\ IsSome(Unwrap(held[Caller]).id)
        /\ \A s \in snapshots : s.data # EmptyObjectText)
          => LET library_id == Unwrap(Unwrap(held[Caller]).id)
                 before == SnapshotsOf(snapshots, library_id)
                 after == SnapshotsOf(snapshots', library_id)
             IN  /\ last'[Caller].ok
                 /\ before \subseteq after
                 /\ Cardinality(after) = Cardinality(before) + 1
                 /\ \A s \in after \ before : \A o \in before : s.version # o.version]_vars

RECURSIVE NodeSeq(_)
\* the nodes of a sequence of layouts one by one, a node before its children
NodeSeq(nodes) ==
    Flatten([i \in 1..Len(nodes) |-> <<nodes[i]>> \o NodeSeq(nodes[i].children)])

\* C28: no two boxes of a chart overlap: two boxes on the same row have their x
\* at least 190 apart (160 of box and 30 of spacing), and two boxes on different
\* rows are at least 110 apart in y, which leaves 60 between the rows.  This holds
\* for siblings, for boxes of different subtrees and for boxes of different
\* top-level units.
NoTwoBoxesOverlap ==
    Exported =>
        LET boxes == NodeSeq(layouts) IN
        \A i, j \in 1..Len(boxes) :
            i < j =>
                LET a == boxes[i]
                    b == boxes[j]
                IN  /\ a.y = b.y => (a.x - b.x >= 190 \/ b.x - a.x >= 190)
                    /\ a.y # b.y => (a.y - b.y >= 110 \/ b.y - a.y >= 110)
                    /\ ~(/\ a.x < b.x + 160 /\ b.x < a.x + 160
                         /\ a.y < b.y + 50 /\ b.y < a.y + 50)

\* a chart with two top-level units, and cousins on one row: two boxes on the same
\* row whose parents differ, next to each other
NoOverlapWitness ==
    /\ Exported
    /\ Len(layouts) >= 2
    /\ \E root \in Range(layouts) : \E i, j \in 1..Len(root.children) :
          /\ i < j
          /\ root.children[i].children # <<>>
          /\ root.children[j].children # <<>>
          /\ LET a == root.children[i].children[Len(root.children[i].children)]
                 b == root.children[j].children[1]
             IN  b.x - a.x = 190

\* C29: every box lies inside the canvas and keeps the padding of 40 on every
\* side: x >= 40, x + 160 <= width - 40, y >= 40 and y + 50 <= height - 40.
BoxesInsideCanvas ==
    Exported =>
        \A node \in NodesOf(layouts) :
            /\ node.x >= 40
            /\ node.x + 160 <= total_width - 40
            /\ node.y >= 40
            /\ node.y + 50 <= total_height - 40

\* a chart of three rows whose leftmost box is at x = 40 and is not a top-level
\* unit, and whose lowest box is not below the first child
InsideCanvasWitness ==
    /\ Exported
    /\ total_height = 110 + 110 * 3
    /\ \E root \in Range(layouts) : \E i \in 1..Len(root.children) :
          /\ root.children[i].x = 40
          /\ root.x > 40
    /\ \E root \in Range(layouts) :
          /\ Len(root.children) >= 2
          /\ root.children[1].children = <<>>
          /\ \E i \in 2..Len(root.children) : root.children[i].children # <<>>

\* C30: when both payloads parse, the line "Data changed but no structural
\* differences detected." follows the version line exactly when the payloads
\* differ as text but parse to equal values, and it is then the only line after
\* the version line; when the parsed values are unequal the result has at least
\* one Added, Removed or Changed record and nothing but such records.
NoStructuralLineExactly ==
    (IsSome(changes) /\ OldValue.ok /\ NewValue.ok)
        => LET lines == Unwrap(changes) IN
           /\ lines[1] = VersionLine(OldSnapshot.version, NewSnapshot.version)
           /\ (Len(lines) >= 2 /\ lines[2] = NoStructuralDifferences)
                 <=> (OldSnapshot.data # NewSnapshot.data /\ OldValue.v = NewValue.v)
           /\ NoStructuralDifferences \in Range(lines) => Len(lines) = 2
           /\ OldValue.v # NewValue.v
                 => /\ Reported # <<>>
                    /\ Tail(lines) = Reported

\* two texts of one value compared: the old text has its members out of key order
\* or a key twice, and the result is the "no structural differences" line
NoStructuralWitness ==
    /\ IsSome(changes)
    /\ OldSnapshot.data \in OtherTexts
    /\ OldSnapshot.data # NewSnapshot.data
    /\ Unwrap(changes) = <<VersionLine(1, 2), NoStructuralDifferences>>

====
